---- MODULE Spec2Model ----
(***************************************************************************)
(* A model of the browser trading engine AutoTradingSystem                 *)
(* (src/unnamed/part_000): its state object, its timers, its asynchronous  *)
(* handlers cut at their awaits, and its persistence to localStorage.      *)
(*                                                                         *)
(* Number representation (JavaScript doubles are modelled in fixed point): *)
(*   prices, position sizes, stored pnl ... cents (what toFixed(2) keeps)  *)
(*   unrounded pnl and the statistics ...... 1/10000 dollar                *)
(*   rsi, pricePosition, volatility ........ hundredths                    *)
(*   confidence ............................ 1/10000 before toFixed(2)     *)
(*   percentages of the configuration ...... per mille                     *)
(*   time .................................. seconds                       *)
(* A JavaScript null is the empty sequence, a present value v is <<v>>.    *)
(***************************************************************************)
EXTENDS Integers, Sequences, FiniteSets, TLC

null == <<>>
Some(v) == <<v>>
Val(x) == x[1]

Max(a, b) == IF a >= b THEN a ELSE b
Min(a, b) == IF a <= b THEN a ELSE b
Abs(a) == IF a < 0 THEN -a ELSE a

\* n / d rounded to the nearest integer, halves away from zero (toFixed).
RoundDiv(n, d) == IF n >= 0 THEN (2 * n + d) \div (2 * d)
                            ELSE -((2 * (-n) + d) \div (2 * d))

\* floor(a * b / c) for c > 0, b >= 0, without forming a * b.
MulDiv(a, b, c) == (a \div c) * b + ((a % c) * b) \div c

\* round(price * pm / 1000): a price scaled by a per-mille factor, to the cent.
Permille(price, pm) == (price \div 1000) * pm + RoundDiv((price % 1000) * pm, 1000)

(***************************************************************************)
(* this.config                                                             *)
(***************************************************************************)
accountBalance == 10000
riskPerTrade == 20
tp1Percent == 15
tp2Percent == 30
slPercent == 12
maxPositionPercent == 500
rsiOversold == 3000
rsiOverbought == 7000
rsiNeutralMin == 4000
rsiNeutralMax == 6000
highVolatility == 500
trendThreshold == 5
cooldownSeconds == 180
HistoryLimit == 20

(***************************************************************************)
(* Bounds of the model and the inputs of the environment                   *)
(***************************************************************************)
MaxTime == 180
MaxTrades == 2
MaxSignalsInFlight == 2
MaxOrphanTimers == 1
MaxResolutions == 4
MaxHistoryTrades == 22
MaxSmallPrice == 150
MaxCloses == 15

\* The clock moves in steps that take a time T to T+179 or to T+180.
TimeSteps == {179, 180}
\* parseFloat(ticker.last): prices the ticker may deliver, in cents.
TickerPrices == {9700, 10000, 10160}
\* the one price of the long session
HistoryPrices == {9700}
\* 50000 + Math.random() * 5000
SimPrices == {5000000}
\* 40 + Math.random() * 30
SimRsi == {5500}
\* 2 + Math.random() * 3
SimVolatility == {350}
\* 20 + Math.random() * 60
SimPricePosition == {3500}
\* parseFloat(signal.price): the entry prices a trade may be opened at, in
\* cents: every price from one cent up to MaxSmallPrice, and some larger ones.
ParamPrices == (1..MaxSmallPrice) \cup {9700, 10000, 10160, 5000000, 6543210}
\* Indicator values analyzeMarket may be given: the thresholds of the
\* configuration, their neighbours, the ends of the ranges, and values between.
AnalyzeRsi == {0, 1500, 2999, 3000, 3001, 3500, 4000, 4001, 5000, 5999, 6000, 6001,
               6500, 7000, 7001, 8500, 10000}
AnalyzeTrends == {"bullish", "neutral", "bearish"}
AnalyzeVolatility == {0, 500, 501, 2000}
AnalyzePricePosition == {0, 2999, 3000, 3999, 4000, 5000, 6000, 6001, 7000, 7001, 10000}
\* The pnl updateStats is given with a win and with a loss, in 1/10000 dollar.
WinPnls == {10000, 20000, 30000}
LossPnls == {-10000, -20000}

(***************************************************************************)
(* Candle batches getCandleData may return (oldest first).                 *)
(***************************************************************************)
Candle(c) == [high |-> c + 50, low |-> c - 50, close |-> c]
\* ten falling closes, then flat at 10250: no gains, so RSI 0, trend neutral;
\* every ticker price lies at or below the support, 10200
OversoldBatch == [i \in 1..20 |-> Candle(IF i <= 10 THEN 11250 - 100 * i ELSE 10250)]
\* ten rising closes, then flat at 9650: no losses, so RSI 100, trend neutral;
\* every ticker price lies at or above the resistance, 9700
OverboughtBatch == [i \in 1..20 |-> Candle(IF i <= 10 THEN 8650 + 100 * i ELSE 9650)]
\* an answer of the API with 19 candles
ShortBatch == [i \in 1..19 |-> Candle(10000)]
CandleBatch(id) ==
    CASE id = "oversold" -> OversoldBatch
      [] id = "overbought" -> OverboughtBatch
      [] id = "short" -> ShortBatch
      [] OTHER -> <<>>
CandleIds == {"oversold", "overbought"}
ShortCandleIds == {"short"}

(***************************************************************************)
(* Technical analysis                                                      *)
(***************************************************************************)
RECURSIVE SumOver(_, _, _)
\* sum of f[i] for i in lo..hi
SumOver(f, lo, hi) == IF lo > hi THEN 0 ELSE f[lo] + SumOver(f, lo + 1, hi)

RECURSIVE Smooth(_, _, _, _)
\* avg = (avg * 13 + x[i]) / 14 for i = from .. Len(x); averages scaled by 100
Smooth(avg, x, from, to) ==
    IF from > to THEN avg
    ELSE Smooth((avg * 13 + x[from] * 100) \div 14, x, from + 1, to)

\* calculateRSI that asks for 15 closes instead of 14
calculateRSIOffByOne(closes) ==
    IF Len(closes) < 15 THEN 5000
    ELSE
      LET n == Len(closes)
          change == [i \in 1..(n - 1) |-> closes[i + 1] - closes[i]]
          gain == [i \in 1..(n - 1) |-> IF change[i] > 0 THEN change[i] ELSE 0]
          lossInit == [i \in 1..(n - 1) |-> IF change[i] > 0 THEN 0 ELSE Abs(change[i])]
          loss == [i \in 1..(n - 1) |-> IF change[i] < 0 THEN Abs(change[i]) ELSE 0]
          avgGain0 == (SumOver(gain, 1, 13) * 100) \div 13
          avgLoss0 == (SumOver(lossInit, 1, 13) * 100) \div 13
          avgGain == Smooth(avgGain0, gain, 14, n - 1)
          avgLoss == Smooth(avgLoss0, loss, 14, n - 1)
      IN IF avgLoss = 0 THEN 10000
         ELSE LET rs == (avgGain * 10000) \div avgLoss
              IN 10000 - (100000000 \div (10000 + rs))
\* calculateRSI with the falls counted as gains and the rises as losses
calculateRSISwapped(closes) ==
    IF Len(closes) < 14 THEN 5000
    ELSE
      LET n == Len(closes)
          change == [i \in 1..(n - 1) |-> closes[i] - closes[i + 1]]
          gain == [i \in 1..(n - 1) |-> IF change[i] > 0 THEN change[i] ELSE 0]
          lossInit == [i \in 1..(n - 1) |-> IF change[i] > 0 THEN 0 ELSE Abs(change[i])]
          loss == [i \in 1..(n - 1) |-> IF change[i] < 0 THEN Abs(change[i]) ELSE 0]
          avgGain0 == (SumOver(gain, 1, 13) * 100) \div 13
          avgLoss0 == (SumOver(lossInit, 1, 13) * 100) \div 13
          avgGain == Smooth(avgGain0, gain, 14, n - 1)
          avgLoss == Smooth(avgLoss0, loss, 14, n - 1)
      IN IF avgLoss = 0 THEN 10000
         ELSE LET rs == (avgGain * 10000) \div avgLoss
              IN 10000 - (100000000 \div (10000 + rs))
calculateRSI(closes) ==
    IF Len(closes) < 14 THEN 5000
    ELSE
      LET n == Len(closes)
          \* change[i] is closes[i] - closes[i-1] in the code's 0-based indexing
          change == [i \in 1..(n - 1) |-> closes[i + 1] - closes[i]]
          gain == [i \in 1..(n - 1) |-> IF change[i] > 0 THEN change[i] ELSE 0]
          lossInit == [i \in 1..(n - 1) |-> IF change[i] > 0 THEN 0 ELSE Abs(change[i])]
          loss == [i \in 1..(n - 1) |-> IF change[i] < 0 THEN Abs(change[i]) ELSE 0]
          avgGain0 == (SumOver(gain, 1, 13) * 100) \div 13
          avgLoss0 == (SumOver(lossInit, 1, 13) * 100) \div 13
          avgGain == Smooth(avgGain0, gain, 14, n - 1)
          avgLoss == Smooth(avgLoss0, loss, 14, n - 1)
      IN IF avgLoss = 0 THEN 10000
         ELSE LET rs == (avgGain * 10000) \div avgLoss  \* rs scaled by 10000
              IN 10000 - (100000000 \div (10000 + rs))

\* The arguments calculateRSI is applied to: closes that start at 100.00 and
\* move from one to the next by steps that are all in {0, 1.00} or all in
\* {0, -1.00}, held as candles.
RsiStepCounts == {0, 6} \cup (12..(MaxCloses - 1))
RsiSteps ==
    UNION {[1..n -> {0, 100}] \cup [1..n -> {0, -100}] : n \in RsiStepCounts}
CandlesFrom(steps) ==
    [i \in 1..(Len(steps) + 1) |-> Candle(10000 + SumOver(steps, 1, i - 1))]
RsiBatches == {CandlesFrom(steps) : steps \in RsiSteps}
ClosesOf(batch) == [i \in 1..Len(batch) |-> batch[i].close]

RECURSIVE MaxOver(_, _, _)
MaxOver(f, lo, hi) == IF lo = hi THEN f[lo] ELSE Max(f[lo], MaxOver(f, lo + 1, hi))
RECURSIVE MinOver(_, _, _)
MinOver(f, lo, hi) == IF lo = hi THEN f[lo] ELSE Min(f[lo], MinOver(f, lo + 1, hi))

\* pricePosition is computed and then clamped to [0, 100]; a price at or beyond
\* an end of the range is clamped without forming the quotient.
calculateSupportResistance(highs, lows, price) ==
    LET n == Len(highs)
        from == Max(1, n - 19)
        resistance == MaxOver(highs, from, n)
        support == MinOver(lows, from, n)
        pricePosition ==
            IF resistance > support
            THEN IF price <= support THEN 0
                 ELSE IF price >= resistance THEN 10000
                 ELSE ((price - support) * 10000) \div (resistance - support)
            ELSE 5000
    IN [support |-> support, resistance |-> resistance,
        pricePosition |-> Max(0, Min(10000, pricePosition))]

\* change = (shortAvg - longAvg) / longAvg * 100 against +-trendThreshold (0.5),
\* with shortAvg = sum5 / 5 and longAvg = sum10 / 10, cleared of denominators.
calculateTrend(closes) ==
    IF Len(closes) < 10 THEN "neutral"
    ELSE
      LET n == Len(closes)
          sum5 == SumOver(closes, n - 4, n)
          sum10 == SumOver(closes, n - 9, n)
          change1000 == (2 * sum5 - sum10) * 1000
      IN IF change1000 > trendThreshold * sum10 THEN "bullish"
         ELSE IF change1000 < -(trendThreshold * sum10) THEN "bearish"
         ELSE "neutral"

RECURSIVE IsqrtFrom(_, _, _)
\* the largest r in lo..hi with r * r <= x
IsqrtFrom(x, lo, hi) ==
    IF lo >= hi THEN lo
    ELSE LET mid == (lo + hi + 1) \div 2
         IN IF mid * mid <= x THEN IsqrtFrom(x, mid, hi) ELSE IsqrtFrom(x, lo, mid - 1)
Isqrt(x) == IsqrtFrom(x, 0, 40000)

\* sqrt(variance) * sqrt(252) * 100; returns in 1/100000, the result in hundredths
calculateVolatility(closes) ==
    IF Len(closes) < 10 THEN 0
    ELSE
      LET n == Len(closes)
          returns == [i \in 1..(n - 1) |-> ((closes[i + 1] - closes[i]) * 100000) \div closes[i]]
          mean == SumOver(returns, 1, n - 1) \div (n - 1)
          sq == [i \in 1..(n - 1) |-> (returns[i] - mean) * (returns[i] - mean)]
          variance == SumOver(sq, 1, n - 1) \div (n - 1)
      IN Isqrt(variance * 252) \div 10

DefaultIndicators ==
    [rsi |-> 5000, trend |-> "neutral", volatility |-> 0,
     support |-> 0, resistance |-> 0, pricePosition |-> 5000]

\* The closes, highs and lows of a batch, and what calculateIndicators derives
\* from the closes alone.
BatchCloses == [id \in CandleIds |-> [i \in 1..Len(CandleBatch(id)) |-> CandleBatch(id)[i].close]]
BatchHighs == [id \in CandleIds |-> [i \in 1..Len(CandleBatch(id)) |-> CandleBatch(id)[i].high]]
BatchLows == [id \in CandleIds |-> [i \in 1..Len(CandleBatch(id)) |-> CandleBatch(id)[i].low]]
BatchAnalysis ==
    [id \in CandleIds |-> [rsi |-> calculateRSI(BatchCloses[id]),
                           trend |-> calculateTrend(BatchCloses[id]),
                           volatility |-> calculateVolatility(BatchCloses[id])]]

\* calculateIndicators: s is the program state, a record of the variables
calculateIndicators(s) ==
    IF Len(CandleBatch(s.candles)) < 20 THEN s
    ELSE
      LET sr == calculateSupportResistance(BatchHighs[s.candles], BatchLows[s.candles],
                                           s.currentPrice)
      IN [s EXCEPT !.indicators =
             [rsi |-> BatchAnalysis[s.candles].rsi,
              support |-> sr.support,
              resistance |-> sr.resistance,
              pricePosition |-> sr.pricePosition,
              trend |-> BatchAnalysis[s.candles].trend,
              volatility |-> BatchAnalysis[s.candles].volatility]]

\* analyzeMarket with the pricePosition rule tried before the two RSI rules
analyzeMarketPositionFirst(s) ==
    LET rsi == s.indicators.rsi
        trend == s.indicators.trend
        volatility == s.indicators.volatility
        pricePosition == s.indicators.pricePosition
        rule ==
            IF pricePosition < 3000 /\ trend # "bearish"
            THEN [action |-> "BUY", confidence |-> 6500]
            ELSE IF pricePosition > 7000 /\ trend # "bullish"
            THEN [action |-> "SELL", confidence |-> 6500]
            ELSE IF rsi < rsiOversold
            THEN IF trend = "bullish" \/ trend = "neutral"
                 THEN [action |-> "BUY",
                       confidence |-> 7000 + (rsiOversold - rsi) * 2
                                      + (IF pricePosition < 4000 THEN 500 ELSE 0)]
                 ELSE [action |-> "HOLD", confidence |-> 5000]
            ELSE IF rsi > rsiOverbought
            THEN IF trend = "bearish" \/ trend = "neutral"
                 THEN [action |-> "SELL",
                       confidence |-> 7000 + (rsi - rsiOverbought) * 2
                                      + (IF pricePosition > 6000 THEN 500 ELSE 0)]
                 ELSE [action |-> "HOLD", confidence |-> 5000]
            ELSE IF rsi > rsiNeutralMin /\ rsi < rsiNeutralMax
            THEN [action |-> "HOLD", confidence |-> 6000]
            ELSE [action |-> "HOLD", confidence |-> 5000]
        filtered == IF volatility > highVolatility
                    THEN (rule.confidence * 8) \div 10 ELSE rule.confidence
        clamped == Max(3000, Min(9500, filtered))
    IN [action |-> rule.action,
        confidence |-> RoundDiv(clamped, 100),
        price |-> s.currentPrice]
\* analyzeMarket without the final clamp of the confidence
analyzeMarketNoClamp(s) ==
    LET rsi == s.indicators.rsi
        trend == s.indicators.trend
        volatility == s.indicators.volatility
        pricePosition == s.indicators.pricePosition
        rule ==
            IF rsi < rsiOversold
            THEN IF trend = "bullish" \/ trend = "neutral"
                 THEN [action |-> "BUY",
                       confidence |-> 7000 + (rsiOversold - rsi) * 2
                                      + (IF pricePosition < 4000 THEN 500 ELSE 0)]
                 ELSE [action |-> "HOLD", confidence |-> 5000]
            ELSE IF rsi > rsiOverbought
            THEN IF trend = "bearish" \/ trend = "neutral"
                 THEN [action |-> "SELL",
                       confidence |-> 7000 + (rsi - rsiOverbought) * 2
                                      + (IF pricePosition > 6000 THEN 500 ELSE 0)]
                 ELSE [action |-> "HOLD", confidence |-> 5000]
            ELSE IF rsi > rsiNeutralMin /\ rsi < rsiNeutralMax
            THEN [action |-> "HOLD", confidence |-> 6000]
            ELSE IF pricePosition < 3000 /\ trend # "bearish"
            THEN [action |-> "BUY", confidence |-> 6500]
            ELSE IF pricePosition > 7000 /\ trend # "bullish"
            THEN [action |-> "SELL", confidence |-> 6500]
            ELSE [action |-> "HOLD", confidence |-> 5000]
        filtered == IF volatility > highVolatility
                    THEN (rule.confidence * 8) \div 10 ELSE rule.confidence
    IN [action |-> rule.action,
        confidence |-> RoundDiv(filtered, 100),
        price |-> s.currentPrice]
\* analyzeMarket: the action and the confidence (toFixed(2): hundredths)
analyzeMarket(s) ==
    LET rsi == s.indicators.rsi
        trend == s.indicators.trend
        volatility == s.indicators.volatility
        pricePosition == s.indicators.pricePosition
        rule ==
            IF rsi < rsiOversold
            THEN IF trend = "bullish" \/ trend = "neutral"
                 THEN [action |-> "BUY",
                       confidence |-> 7000 + (rsiOversold - rsi) * 2
                                      + (IF pricePosition < 4000 THEN 500 ELSE 0)]
                 ELSE [action |-> "HOLD", confidence |-> 5000]
            ELSE IF rsi > rsiOverbought
            THEN IF trend = "bearish" \/ trend = "neutral"
                 THEN [action |-> "SELL",
                       confidence |-> 7000 + (rsi - rsiOverbought) * 2
                                      + (IF pricePosition > 6000 THEN 500 ELSE 0)]
                 ELSE [action |-> "HOLD", confidence |-> 5000]
            ELSE IF rsi > rsiNeutralMin /\ rsi < rsiNeutralMax
            THEN [action |-> "HOLD", confidence |-> 6000]
            ELSE IF pricePosition < 3000 /\ trend # "bearish"
            THEN [action |-> "BUY", confidence |-> 6500]
            ELSE IF pricePosition > 7000 /\ trend # "bullish"
            THEN [action |-> "SELL", confidence |-> 6500]
            ELSE [action |-> "HOLD", confidence |-> 5000]
        filtered == IF volatility > highVolatility
                    THEN (rule.confidence * 8) \div 10 ELSE rule.confidence
        clamped == Max(3000, Min(9500, filtered))
    IN [action |-> rule.action,
        confidence |-> RoundDiv(clamped, 100),
        price |-> s.currentPrice]

(***************************************************************************)
(* The state                                                               *)
(***************************************************************************)
VARIABLES
    now,            \* Date.now(), in seconds
    currentPrice,   \* this.state.currentPrice
    indicators,     \* this.state.indicators
    candles,        \* this.candles: "none" or the id of a candle batch
    activeTrade,    \* this.state.activeTrade: null or <<trade>>
    aliased,        \* the object in activeTrade is the object signalHistory[1]
    signalHistory,  \* this.state.signalHistory, newest first
    stats,          \* this.state.stats
    cooldownEnd,    \* this.state.cooldownEnd: null or <<time>>
    isRunning,      \* this.state.isRunning
    isInitialized,  \* this.state.isInitialized
    storage,        \* localStorage: trading_signals and trading_state
    nextId,         \* the next fresh trade id (Date.now() + Math.random())
    intervals,      \* this.intervals[kind]: "null", "scheduled" or "cleared"
    orphanTimers,   \* scheduled timers whose handle this.intervals no longer holds
    inFlight,       \* generateSignal calls suspended at their ticker fetch
    initPc,         \* where init() stands
    simScheduled,   \* useSimulationMode's setTimeout is pending
    resolvedAt,     \* when the cooldown now in cooldownEnd was started by a resolution
    resolutions     \* what updateStats was called with since the last reset, in order

vars == <<now, currentPrice, indicators, candles, activeTrade, aliased, signalHistory,
          stats, cooldownEnd, isRunning, isInitialized, storage, nextId, intervals,
          orphanTimers, inFlight, initPc, simScheduled, resolvedAt, resolutions>>

Kinds == {"price", "signal", "chart"}

DefaultStats ==
    [totalTrades |-> 0, winningTrades |-> 0, totalPnL |-> 0, currentStreak |-> 0,
     bestStreak |-> 0, maxWin |-> 0, maxLoss |-> 0, avgWin |-> 0, avgLoss |-> 0]

EmptyStorage == [signals |-> null, state |-> null]

\* The program state that the methods read and write, as one record.
St == [currentPrice |-> currentPrice, indicators |-> indicators, candles |-> candles,
       activeTrade |-> activeTrade, aliased |-> aliased, signalHistory |-> signalHistory,
       stats |-> stats, cooldownEnd |-> cooldownEnd, isRunning |-> isRunning,
       isInitialized |-> isInitialized, storage |-> storage, nextId |-> nextId,
       intervals |-> intervals, orphanTimers |-> orphanTimers,
       \* not state: the trade object the last completeTrade wrote and the pnl
       \* it computed, whether checkTradeConditions went past its guard, and
       \* whether generateSignal issued its ticker fetch
       done |-> null, pnl |-> 0, evaluated |-> FALSE, fetch |-> FALSE]

\* The variables take the values of the record s.
Commit(s) ==
    /\ currentPrice' = s.currentPrice
    /\ indicators' = s.indicators
    /\ candles' = s.candles
    /\ activeTrade' = s.activeTrade
    /\ aliased' = s.aliased
    /\ signalHistory' = s.signalHistory
    /\ stats' = s.stats
    /\ cooldownEnd' = s.cooldownEnd
    /\ isRunning' = s.isRunning
    /\ isInitialized' = s.isInitialized
    /\ storage' = s.storage
    /\ nextId' = s.nextId
    /\ intervals' = s.intervals
    /\ orphanTimers' = s.orphanTimers

\* The state object of the constructor and of resetSystem.
FreshState(s) ==
    [s EXCEPT !.currentPrice = 0, !.indicators = DefaultIndicators,
              !.activeTrade = null, !.aliased = FALSE, !.signalHistory = <<>>,
              !.stats = DefaultStats, !.cooldownEnd = null,
              !.isRunning = FALSE, !.isInitialized = FALSE]

(***************************************************************************)
(* Cooldown and persistence                                                *)
(***************************************************************************)
\* isInCooldown with the end of the window counted in
isInCooldownInclusive(s) ==
    IF s.cooldownEnd = null THEN FALSE ELSE now <= Val(s.cooldownEnd)
isInCooldown(s) ==
    IF s.cooldownEnd = null THEN FALSE ELSE now < Val(s.cooldownEnd)

startCooldownPeriod(s) ==
    [s EXCEPT !.cooldownEnd = Some(now + cooldownSeconds)]

\* JSON.stringify of the history and of {stats, cooldownEnd, activeTrade}
saveData(s) ==
    [s EXCEPT !.storage =
        [signals |-> Some(s.signalHistory),
         state |-> Some([stats |-> s.stats, cooldownEnd |-> s.cooldownEnd,
                         activeTrade |-> s.activeTrade])]]

\* loadStoredData that restores the history, the cooldown and the active trade
\* but not the statistics
loadStoredDataNoStats(s) ==
    LET s1 == IF s.storage.signals # null
              THEN [s EXCEPT !.signalHistory =
                        SubSeq(Val(s.storage.signals), 1,
                               Min(HistoryLimit, Len(Val(s.storage.signals)))),
                             !.aliased = FALSE]
              ELSE s
    IN IF s.storage.state # null
       THEN LET parsed == Val(s.storage.state)
                s2 == [s1 EXCEPT !.cooldownEnd = parsed.cooldownEnd]
            IN IF parsed.activeTrade # null /\ Val(parsed.activeTrade).status = "active"
               THEN [s2 EXCEPT !.activeTrade = parsed.activeTrade, !.aliased = FALSE]
               ELSE s2
       ELSE s1

\* loadStoredData that restores the persisted trade whatever its status
loadStoredDataAnyStatus(s) ==
    LET s1 == IF s.storage.signals # null
              THEN [s EXCEPT !.signalHistory =
                        SubSeq(Val(s.storage.signals), 1,
                               Min(HistoryLimit, Len(Val(s.storage.signals)))),
                             !.aliased = FALSE]
              ELSE s
    IN IF s.storage.state # null
       THEN LET parsed == Val(s.storage.state)
                s2 == [s1 EXCEPT !.stats = parsed.stats,
                                 !.cooldownEnd = parsed.cooldownEnd]
            IN IF parsed.activeTrade # null
               THEN [s2 EXCEPT !.activeTrade = parsed.activeTrade, !.aliased = FALSE]
               ELSE s2
       ELSE s1
\* JSON.parse builds new objects: a restored trade is not the history's object.
loadStoredData(s) ==
    LET s1 == IF s.storage.signals # null
              THEN [s EXCEPT !.signalHistory =
                        SubSeq(Val(s.storage.signals), 1,
                               Min(HistoryLimit, Len(Val(s.storage.signals)))),
                             !.aliased = FALSE]
              ELSE s
    IN IF s.storage.state # null
       THEN LET parsed == Val(s.storage.state)
                s2 == [s1 EXCEPT !.stats = parsed.stats,
                                 !.cooldownEnd = parsed.cooldownEnd]
            IN IF parsed.activeTrade # null /\ Val(parsed.activeTrade).status = "active"
               THEN [s2 EXCEPT !.activeTrade = parsed.activeTrade, !.aliased = FALSE]
               ELSE s2
       ELSE s1

(***************************************************************************)
(* Trades                                                                  *)
(***************************************************************************)
\* tp1, tp2 and sl as createTradeRecord stores them (toFixed(2)), the position
\* size as calculateTradeParams returns it (toFixed(2)).  risk / price is
\* |price - price * (1 -+ slPercent)| / price = slPercent.
\* calculateTradeParams without the cap of the position size
calculateTradeParamsNoCap(action, price) ==
    LET riskAmount == (accountBalance * riskPerTrade) \div 1000
        positionSize == RoundDiv(riskAmount * 1000, slPercent)
    IN IF action = "BUY"
       THEN [tp1 |-> Permille(price, 1000 + tp1Percent),
             tp2 |-> Permille(price, 1000 + tp2Percent),
             sl |-> Permille(price, 1000 - slPercent),
             positionSize |-> positionSize]
       ELSE [tp1 |-> Permille(price, 1000 - tp1Percent),
             tp2 |-> Permille(price, 1000 - tp2Percent),
             sl |-> Permille(price, 1000 + slPercent),
             positionSize |-> positionSize]
calculateTradeParams(action, price) ==
    LET riskAmount == (accountBalance * riskPerTrade) \div 1000
        positionSize == Min(RoundDiv(riskAmount * 1000, slPercent),
                            (accountBalance * maxPositionPercent) \div 1000)
    IN IF action = "BUY"
       THEN [tp1 |-> Permille(price, 1000 + tp1Percent),
             tp2 |-> Permille(price, 1000 + tp2Percent),
             sl |-> Permille(price, 1000 - slPercent),
             positionSize |-> positionSize]
       ELSE [tp1 |-> Permille(price, 1000 - tp1Percent),
             tp2 |-> Permille(price, 1000 - tp2Percent),
             sl |-> Permille(price, 1000 + slPercent),
             positionSize |-> positionSize]

createTradeRecord(s, signal) ==
    LET params == calculateTradeParams(signal.action, signal.price)
    IN [id |-> s.nextId, action |-> signal.action, price |-> signal.price,
        tp1 |-> params.tp1, tp2 |-> params.tp2, sl |-> params.sl,
        positionSize |-> params.positionSize,
        status |-> "active", result |-> "none", pnl |-> null,
        exitPrice |-> null, completedAt |-> null]

\* addToHistory that cuts the full history at its front
addToHistoryDropsNewest(s, trade) ==
    LET h == <<trade>> \o s.signalHistory
    IN [s EXCEPT !.signalHistory =
            IF Len(h) > HistoryLimit THEN SubSeq(h, 2, HistoryLimit + 1) ELSE h]
addToHistory(s, trade) ==
    LET h == <<trade>> \o s.signalHistory
    IN [s EXCEPT !.signalHistory =
            IF Len(h) > HistoryLimit THEN SubSeq(h, 1, HistoryLimit) ELSE h]

\* opening a trade without adding it to the history
OpenTradeNoHistory(s, signal) ==
    LET trade == createTradeRecord(s, signal)
    IN [s EXCEPT !.activeTrade = Some(trade), !.aliased = TRUE, !.nextId = s.nextId + 1]
\* The lines of generateSignal and of generateSimulatedSignal that open a trade.
OpenTrade(s, signal) ==
    LET trade == createTradeRecord(s, signal)
    IN addToHistory([s EXCEPT !.activeTrade = Some(trade), !.aliased = TRUE,
                              !.nextId = s.nextId + 1], trade)

\* updateStats that leaves the current streak alone on a loss
updateStatsKeepStreak(s, result, pnl) ==
    LET st == s.stats
    IN IF result = "win"
       THEN [s EXCEPT !.stats =
              [st EXCEPT !.totalTrades = @ + 1, !.winningTrades = @ + 1,
                         !.currentStreak = @ + 1,
                         !.bestStreak = IF st.currentStreak + 1 > @
                                        THEN st.currentStreak + 1 ELSE @,
                         !.totalPnL = @ + pnl]]
       ELSE [s EXCEPT !.stats = [st EXCEPT !.totalTrades = @ + 1, !.totalPnL = @ + pnl]]
\* updateStats that adds the pnl to totalPnL only on a win
updateStatsWinsOnly(s, result, pnl) ==
    LET st == s.stats
    IN IF result = "win"
       THEN [s EXCEPT !.stats =
              [st EXCEPT !.totalTrades = @ + 1, !.winningTrades = @ + 1,
                         !.currentStreak = @ + 1,
                         !.bestStreak = IF st.currentStreak + 1 > @
                                        THEN st.currentStreak + 1 ELSE @,
                         !.avgWin = IF st.winningTrades > 0
                                    THEN RoundDiv(@ * st.winningTrades + pnl,
                                                  st.winningTrades + 1)
                                    ELSE pnl,
                         !.totalPnL = @ + pnl]]
       ELSE [s EXCEPT !.stats = [st EXCEPT !.totalTrades = @ + 1, !.currentStreak = 0]]
\* updateStats that takes the latest winning pnl as maxWin and the latest
\* losing pnl as maxLoss
updateStatsLatestExtremes(s, result, pnl) ==
    LET st == s.stats
        total == st.totalTrades + 1
    IN IF result = "win"
       THEN LET wins == st.winningTrades + 1
                streak == st.currentStreak + 1
                winCount == wins - 1
            IN [s EXCEPT !.stats =
                 [st EXCEPT !.totalTrades = total,
                            !.winningTrades = wins,
                            !.currentStreak = streak,
                            !.bestStreak = IF streak > st.bestStreak THEN streak
                                           ELSE st.bestStreak,
                            !.maxWin = pnl,
                            !.avgWin = IF winCount > 0
                                       THEN RoundDiv(st.avgWin * winCount + pnl, wins)
                                       ELSE pnl,
                            !.totalPnL = st.totalPnL + pnl]]
       ELSE LET losses == total - st.winningTrades
                lossCount == losses - 1
            IN [s EXCEPT !.stats =
                 [st EXCEPT !.totalTrades = total,
                            !.currentStreak = 0,
                            !.maxLoss = pnl,
                            !.avgLoss = IF lossCount > 0
                                        THEN RoundDiv(st.avgLoss * lossCount + pnl, losses)
                                        ELSE pnl,
                            !.totalPnL = st.totalPnL + pnl]]
updateStats(s, result, pnl) ==
    LET st == s.stats
        total == st.totalTrades + 1
    IN IF result = "win"
       THEN LET wins == st.winningTrades + 1
                streak == st.currentStreak + 1
                winCount == wins - 1
            IN [s EXCEPT !.stats =
                 [st EXCEPT !.totalTrades = total,
                            !.winningTrades = wins,
                            !.currentStreak = streak,
                            !.bestStreak = IF streak > st.bestStreak THEN streak
                                           ELSE st.bestStreak,
                            !.maxWin = IF pnl > st.maxWin THEN pnl ELSE st.maxWin,
                            !.avgWin = IF winCount > 0
                                       THEN RoundDiv(st.avgWin * winCount + pnl, wins)
                                       ELSE pnl,
                            !.totalPnL = st.totalPnL + pnl]]
       ELSE LET losses == total - st.winningTrades
                lossCount == losses - 1
            IN [s EXCEPT !.stats =
                 [st EXCEPT !.totalTrades = total,
                            !.currentStreak = 0,
                            !.maxLoss = IF pnl < st.maxLoss THEN pnl ELSE st.maxLoss,
                            !.avgLoss = IF lossCount > 0
                                        THEN RoundDiv(st.avgLoss * lossCount + pnl, losses)
                                        ELSE pnl,
                            !.totalPnL = st.totalPnL + pnl]]

\* The pnl completeTrade computes, in 1/10000 dollar: the distance from the
\* entry to the level that was hit, times positionSize / entry.
TradePnl(trade, result, tpLevel) ==
    LET level == IF result = "win"
                 THEN (IF tpLevel = 1 THEN trade.tp1 ELSE trade.tp2)
                 ELSE trade.sl
        diff == IF trade.action = "BUY" THEN level - trade.price ELSE trade.price - level
        scaled == MulDiv(Abs(diff) * trade.positionSize, 100, trade.price)
    IN IF diff >= 0 THEN scaled ELSE -scaled

\* The trade object after completeTrade's assignments to it.
ResolvedTrade(trade, result, tpLevel, price) ==
    [trade EXCEPT !.status = IF result = "win"
                             THEN (IF tpLevel = 1 THEN "hit_tp1" ELSE "hit_tp2")
                             ELSE "hit_sl",
                  !.result = result,
                  !.pnl = Some(RoundDiv(TradePnl(trade, result, tpLevel), 100)),
                  !.exitPrice = Some(price),
                  !.completedAt = Some(now)]

\* completeTrade without its last call, startCooldownPeriod
CompleteTradeNoCooldown(s, result, tpLevel, price) ==
    LET trade == Val(s.activeTrade)
        done == ResolvedTrade(trade, result, tpLevel, price)
        s1 == IF s.aliased
              THEN [s EXCEPT !.signalHistory = [s.signalHistory EXCEPT ![1] = done]]
              ELSE s
        s2 == updateStats(s1, result, TradePnl(trade, result, tpLevel))
        s3 == [s2 EXCEPT !.activeTrade = null, !.aliased = FALSE, !.done = Some(done),
                         !.pnl = TradePnl(trade, result, tpLevel)]
    IN saveData(s3)
\* completeTrade that leaves the trade in the active slot
CompleteTradeKeepSlot(s, result, tpLevel, price) ==
    LET trade == Val(s.activeTrade)
        done == ResolvedTrade(trade, result, tpLevel, price)
        s1 == IF s.aliased
              THEN [s EXCEPT !.signalHistory = [s.signalHistory EXCEPT ![1] = done]]
              ELSE s
        s2 == updateStats(s1, result, TradePnl(trade, result, tpLevel))
        s3 == [s2 EXCEPT !.activeTrade = Some(done), !.done = Some(done),
                         !.pnl = TradePnl(trade, result, tpLevel)]
    IN startCooldownPeriod(saveData(s3))
completeTrade(s, result, tpLevel, price) ==
    LET trade == Val(s.activeTrade)
        done == ResolvedTrade(trade, result, tpLevel, price)
        s1 == IF s.aliased
              THEN [s EXCEPT !.signalHistory = [s.signalHistory EXCEPT ![1] = done]]
              ELSE s
        s2 == updateStats(s1, result, TradePnl(trade, result, tpLevel))
        s3 == [s2 EXCEPT !.activeTrade = null, !.aliased = FALSE, !.done = Some(done),
                         !.pnl = TradePnl(trade, result, tpLevel)]
    IN startCooldownPeriod(saveData(s3))

\* completeTrade when one of the three presentation calls between the record's
\* update and the clearing of the slot throws: updateStatsDisplay (the last
\* statement of updateStats), updateTradeStatus or highlightTradeResult.  The
\* record and the statistics are written; the slot, the save and the cooldown
\* are not reached.
completeTradeRenderThrows(s, result, tpLevel, price) ==
    LET trade == Val(s.activeTrade)
        done == ResolvedTrade(trade, result, tpLevel, price)
        s1 == IF s.aliased
              THEN [s EXCEPT !.signalHistory = [s.signalHistory EXCEPT ![1] = done]]
              ELSE s
        s2 == updateStats(s1, result, TradePnl(trade, result, tpLevel))
    IN [s2 EXCEPT !.activeTrade = Some(done), !.done = Some(done),
                  !.pnl = TradePnl(trade, result, tpLevel)]

\* the decision with tp1 tested before tp2
TradeOutcomeTp1First(trade, current) ==
    LET tp1 == trade.tp1
        tp2 == trade.tp2
        sl == trade.sl
    IN IF trade.action = "BUY"
       THEN IF current >= tp1 THEN [triggered |-> TRUE, result |-> "win", tpLevel |-> 1]
            ELSE IF current >= tp2 THEN [triggered |-> TRUE, result |-> "win", tpLevel |-> 2]
            ELSE IF current <= sl THEN [triggered |-> TRUE, result |-> "loss", tpLevel |-> 0]
            ELSE [triggered |-> FALSE, result |-> "none", tpLevel |-> 0]
       ELSE IF trade.action = "SELL"
       THEN IF current <= tp1 THEN [triggered |-> TRUE, result |-> "win", tpLevel |-> 1]
            ELSE IF current <= tp2 THEN [triggered |-> TRUE, result |-> "win", tpLevel |-> 2]
            ELSE IF current >= sl THEN [triggered |-> TRUE, result |-> "loss", tpLevel |-> 0]
            ELSE [triggered |-> FALSE, result |-> "none", tpLevel |-> 0]
       ELSE [triggered |-> FALSE, result |-> "none", tpLevel |-> 0]
\* the decision with a SELL trade compared the way a BUY trade is
TradeOutcomeSellAsBuy(trade, current) ==
    LET tp1 == trade.tp1
        tp2 == trade.tp2
        sl == trade.sl
    IN IF trade.action = "BUY" \/ trade.action = "SELL"
       THEN IF current >= tp2 THEN [triggered |-> TRUE, result |-> "win", tpLevel |-> 2]
            ELSE IF current >= tp1 THEN [triggered |-> TRUE, result |-> "win", tpLevel |-> 1]
            ELSE IF current <= sl THEN [triggered |-> TRUE, result |-> "loss", tpLevel |-> 0]
            ELSE [triggered |-> FALSE, result |-> "none", tpLevel |-> 0]
       ELSE [triggered |-> FALSE, result |-> "none", tpLevel |-> 0]
\* The decision of checkTradeConditions for a trade and the current price.
TradeOutcome(trade, current) ==
    LET tp1 == trade.tp1
        tp2 == trade.tp2
        sl == trade.sl
    IN IF trade.action = "BUY"
       THEN IF current >= tp2 THEN [triggered |-> TRUE, result |-> "win", tpLevel |-> 2]
            ELSE IF current >= tp1 THEN [triggered |-> TRUE, result |-> "win", tpLevel |-> 1]
            ELSE IF current <= sl THEN [triggered |-> TRUE, result |-> "loss", tpLevel |-> 0]
            ELSE [triggered |-> FALSE, result |-> "none", tpLevel |-> 0]
       ELSE IF trade.action = "SELL"
       THEN IF current <= tp2 THEN [triggered |-> TRUE, result |-> "win", tpLevel |-> 2]
            ELSE IF current <= tp1 THEN [triggered |-> TRUE, result |-> "win", tpLevel |-> 1]
            ELSE IF current >= sl THEN [triggered |-> TRUE, result |-> "loss", tpLevel |-> 0]
            ELSE [triggered |-> FALSE, result |-> "none", tpLevel |-> 0]
       ELSE [triggered |-> FALSE, result |-> "none", tpLevel |-> 0]

\* What a call of completeTrade throws: with no trade in the slot,
\* trade.positionSize dereferences null before anything is written.
completeTradeThrows(s) == IF s.activeTrade = null THEN "TypeError" ELSE "none"

checkTradeConditions(s) ==
    IF s.activeTrade = null \/ s.currentPrice = 0 THEN s
    ELSE LET o == TradeOutcome(Val(s.activeTrade), s.currentPrice)
             s1 == [s EXCEPT !.evaluated = TRUE]
         IN IF o.triggered THEN completeTrade(s1, o.result, o.tpLevel, s.currentPrice)
            ELSE s1

\* checkTradeConditions when the completeTrade it calls throws in a
\* presentation call
checkTradeConditionsRenderThrows(s) ==
    IF s.activeTrade = null \/ s.currentPrice = 0 THEN s
    ELSE LET o == TradeOutcome(Val(s.activeTrade), s.currentPrice)
             s1 == [s EXCEPT !.evaluated = TRUE]
         IN IF o.triggered
            THEN completeTradeRenderThrows(s1, o.result, o.tpLevel, s.currentPrice)
            ELSE s1

updatePriceData(s, price) == [s EXCEPT !.currentPrice = price]

\* generateSignal with only the cooldown guard
generateSignalStartCooldownOnly(s) ==
    IF isInCooldown(s) THEN s ELSE [s EXCEPT !.fetch = TRUE]
\* generateSignal up to its await: the two guards, then the ticker fetch.
generateSignalStart(s) ==
    IF isInCooldown(s) \/ s.activeTrade # null THEN s ELSE [s EXCEPT !.fetch = TRUE]

\* The signal generateSignal analyses once the ticker has delivered price p.
SignalFor(s, p) == analyzeMarket(calculateIndicators(updatePriceData(s, p)))

\* generateSignal after its await, when the ticker has delivered price p.
generateSignalAfterFetch(s, p) ==
    LET s1 == calculateIndicators(updatePriceData(s, p))
        signal == analyzeMarket(s1)
    IN IF signal.action # "HOLD" THEN saveData(OpenTrade(s1, signal)) ELSE s1

\* generateSignal after its await when displaySignal or updateTradeStatus
\* throws after the trade was put in the slot and in the history: saveData is
\* not reached, the catch logs.
generateSignalAfterFetchRenderThrows(s, p) ==
    LET s1 == calculateIndicators(updatePriceData(s, p))
        signal == analyzeMarket(s1)
    IN IF signal.action # "HOLD" THEN OpenTrade(s1, signal) ELSE s1

\* generateSignal after its await: the ticker is null when getTickerData threw
\* (the catch logs), and <<p>> when it delivered the price p.
generateSignalResume(s, ticker) ==
    IF ticker = null THEN s ELSE generateSignalAfterFetch(s, Val(ticker))

\* the price handler with a failed fetch taken as fatal: it stops the timers
priceTickHandlerStopsOnFailure(s, ticker) ==
    IF ticker = null
    THEN [s EXCEPT !.isRunning = FALSE, !.intervals = [k \in {"price", "signal", "chart"} |-> "cleared"]]
    ELSE checkTradeConditions(updatePriceData(s, Val(ticker)))
\* the price handler that stores the price and leaves the check of the trade
\* to a later tick
priceTickHandlerNoCheck(s, ticker) ==
    IF ticker = null THEN s ELSE updatePriceData(s, Val(ticker))
\* The price timer's handler: the ticker is null when getTickerData threw.
priceTickHandler(s, ticker) ==
    IF ticker = null THEN s ELSE checkTradeConditions(updatePriceData(s, Val(ticker)))

\* The price timer's handler when completeTrade throws in a presentation call:
\* the handler's catch logs the error.
priceTickHandlerRenderThrows(s, p) ==
    checkTradeConditionsRenderThrows(updatePriceData(s, p))

\* The chart timer's handler: the batch is null when getCandleData threw, which
\* is before the assignment to this.candles.
chartTickHandler(s, batch) ==
    IF batch = null THEN s ELSE calculateIndicators([s EXCEPT !.candles = Val(batch)])

(***************************************************************************)
(* Timers and modes                                                        *)
(***************************************************************************)
\* setInterval for the three handlers; a handle still scheduled that is
\* overwritten stays scheduled with nothing left to clear it.
startAutoMode(s) ==
    IF s.isRunning THEN s
    ELSE [s EXCEPT !.isRunning = TRUE,
                   !.orphanTimers = [k \in Kinds |->
                        s.orphanTimers[k] + (IF s.intervals[k] = "scheduled" THEN 1 ELSE 0)],
                   !.intervals = [k \in Kinds |-> "scheduled"]]

stopAutoMode(s) ==
    IF ~s.isRunning THEN s
    ELSE [s EXCEPT !.isRunning = FALSE,
                   !.intervals = [k \in Kinds |->
                        IF s.intervals[k] = "null" THEN "null" ELSE "cleared"]]

\* resetSystem up to its setTimeout: the state object is replaced first, and
\* stopAutoMode then reads isRunning from the new object.
resetSystem(s) ==
    stopAutoMode([FreshState(s) EXCEPT !.storage = EmptyStorage, !.candles = "none"])

useSimulationMode(s, price, rsi, trend, volatility, pricePosition) ==
    [s EXCEPT !.currentPrice = price,
              !.indicators = [s.indicators EXCEPT !.rsi = rsi, !.trend = trend,
                                                  !.volatility = volatility,
                                                  !.pricePosition = pricePosition]]

\* The action generateSimulatedSignal derives from the rsi.
SimulatedAction(rsi) ==
    IF rsi < 3000 THEN "BUY" ELSE IF rsi > 7000 THEN "SELL" ELSE "HOLD"

TimerScheduled(k) == intervals[k] = "scheduled" \/ orphanTimers[k] > 0

Idle == UNCHANGED <<initPc, simScheduled>>

(***************************************************************************)
(* Actions                                                                 *)
(***************************************************************************)
\* initTradingSystem: the constructor, and init() up to its first await, with
\* nothing in localStorage.
Init ==
    /\ now = 0
    /\ currentPrice = 0
    /\ indicators = DefaultIndicators
    /\ candles = "none"
    /\ activeTrade = null
    /\ aliased = FALSE
    /\ signalHistory = <<>>
    /\ stats = DefaultStats
    /\ cooldownEnd = null
    /\ isRunning = FALSE
    /\ isInitialized = FALSE
    /\ storage = EmptyStorage
    /\ nextId = 1
    /\ intervals = [k \in Kinds |-> "null"]
    /\ orphanTimers = [k \in Kinds |-> 0]
    /\ inFlight = 0
    /\ initPc = "testConnection"
    /\ simScheduled = FALSE
    /\ resolvedAt = null
    /\ resolutions = <<>>

\* The constructor's state with a batch of candles in this.candles.
InitRsi ==
    /\ now = 0
    /\ currentPrice = 0
    /\ indicators = DefaultIndicators
    /\ candles \in RsiBatches
    /\ activeTrade = null
    /\ aliased = FALSE
    /\ signalHistory = <<>>
    /\ stats = DefaultStats
    /\ cooldownEnd = null
    /\ isRunning = FALSE
    /\ isInitialized = FALSE
    /\ storage = EmptyStorage
    /\ nextId = 1
    /\ intervals = [k \in Kinds |-> "null"]
    /\ orphanTimers = [k \in Kinds |-> 0]
    /\ inFlight = 0
    /\ initPc = "testConnection"
    /\ simScheduled = FALSE
    /\ resolvedAt = null
    /\ resolutions = <<>>

\* this.state.indicators.rsi = this.calculateRSI(closes), closes being the
\* closes of this.candles
ApplyCalculateRSI ==
    /\ Commit([St EXCEPT !.indicators.rsi = calculateRSI(ClosesOf(candles))])
    /\ UNCHANGED <<now, inFlight, initPc, simScheduled, resolvedAt, resolutions>>

SpecRsi == InitRsi /\ [][ApplyCalculateRSI]_vars

\* Time passes.  The 1 s and 5 s timeouts of resetSystem and useSimulationMode
\* and the start of init() come before the clock's next step.
AdvanceTime ==
    /\ initPc # "start"
    /\ ~simScheduled
    /\ \E d \in TimeSteps : now + d <= MaxTime /\ now' = now + d
    /\ UNCHANGED <<currentPrice, indicators, candles, activeTrade, aliased, signalHistory,
                   stats, cooldownEnd, isRunning, isInitialized, storage, nextId,
                   intervals, orphanTimers, inFlight, resolvedAt, resolutions>>
    /\ Idle

\* A call of generateSignal runs up to its await and is suspended there.
BeginGenerateSignal(s) ==
    /\ LET s1 == generateSignalStart(s)
       IN /\ IF s1.fetch
             THEN inFlight < MaxSignalsInFlight /\ inFlight' = inFlight + 1
             ELSE inFlight' = inFlight
          /\ Commit(s1)
    /\ now' = now
    /\ Idle

SignalTimerFires ==
    /\ TimerScheduled("signal")
    /\ BeginGenerateSignal(St)
    /\ UNCHANGED <<resolvedAt, resolutions>>

manualGenerateSignal ==
    /\ BeginGenerateSignal([St EXCEPT !.cooldownEnd = null])
    /\ resolvedAt' = null
    /\ UNCHANGED resolutions

\* generateSignal after the ticker arrived
GenerateSignalDone ==
    /\ inFlight > 0
    /\ \E p \in TickerPrices :
         /\ SignalFor(St, p).action # "HOLD" => nextId <= MaxTrades
         /\ Commit(generateSignalResume(St, Some(p)))
    /\ inFlight' = inFlight - 1
    /\ UNCHANGED <<now, resolvedAt, resolutions>>
    /\ Idle

\* getTickerData threw: the catch of generateSignal
GenerateSignalFails ==
    /\ inFlight > 0
    /\ inFlight' = inFlight - 1
    /\ Commit(generateSignalResume(St, null))
    /\ UNCHANGED <<now, resolvedAt, resolutions>>
    /\ Idle

\* The variables after a handler that called checkTradeConditions and ended in
\* the state s2.
RunCheck(s2) ==
    /\ Commit(s2)
    /\ resolvedAt' = IF s2.done # null THEN Some(now) ELSE resolvedAt
    /\ resolutions' = IF s2.done # null
                      THEN Append(resolutions,
                                  [result |-> Val(s2.done).result,
                                   pnl |-> s2.pnl])
                      ELSE resolutions

\* The price handler: the interval fires, the ticker arrives, updatePriceData
\* and checkTradeConditions run.  The handler touches no state before its
\* await, so the firing and the arrival are one step.
PriceTick ==
    /\ TimerScheduled("price")
    /\ \E p \in TickerPrices : RunCheck(priceTickHandler(St, Some(p)))
    /\ UNCHANGED <<now, inFlight>>
    /\ Idle

\* The price handler on a tick that resolves the trade, with a presentation
\* call of completeTrade throwing.
PriceTickRenderFails ==
    /\ TimerScheduled("price")
    /\ Len(resolutions) < MaxResolutions
    /\ \E p \in TickerPrices :
         LET s2 == priceTickHandlerRenderThrows(St, p)
         IN /\ s2.done # null
            /\ RunCheck(s2)
    /\ UNCHANGED <<now, inFlight>>
    /\ Idle

\* generateSignal resumes and opens a trade, with a presentation call of the
\* opening throwing.
GenerateSignalRenderFails ==
    /\ inFlight > 0
    /\ \E p \in TickerPrices :
         /\ SignalFor(St, p).action # "HOLD"
         /\ nextId <= MaxTrades
         /\ Commit(generateSignalAfterFetchRenderThrows(St, p))
    /\ inFlight' = inFlight - 1
    /\ UNCHANGED <<now, resolvedAt, resolutions>>
    /\ Idle

\* The price handler when getTickerData throws: the catch only logs.
PriceTickFails ==
    /\ TimerScheduled("price")
    /\ Commit(priceTickHandler(St, null))
    /\ UNCHANGED <<now, inFlight, resolvedAt, resolutions>>
    /\ Idle

\* The chart handler: the interval fires, the candles arrive (one step, as for
\* the price handler), calculateIndicators runs.
ChartTick ==
    /\ TimerScheduled("chart")
    /\ \E c \in CandleIds : Commit(chartTickHandler(St, Some(c)))
    /\ UNCHANGED <<now, inFlight, resolvedAt, resolutions>>
    /\ Idle

\* The chart handler when getCandleData returns fewer than 20 candles.
ChartTickShort ==
    /\ TimerScheduled("chart")
    /\ \E c \in ShortCandleIds : Commit(chartTickHandler(St, Some(c)))
    /\ UNCHANGED <<now, inFlight, resolvedAt, resolutions>>
    /\ Idle

ChartTickFails ==
    /\ TimerScheduled("chart")
    /\ Commit(chartTickHandler(St, null))
    /\ UNCHANGED <<now, inFlight, resolvedAt, resolutions>>
    /\ Idle

manualCheckTrade ==
    /\ IF activeTrade # null
       THEN RunCheck(checkTradeConditions(St))
       ELSE Commit(St) /\ UNCHANGED <<resolvedAt, resolutions>>
    /\ UNCHANGED <<now, inFlight>>
    /\ Idle

\* completeTrade called with no trade in the active slot: it throws, and
\* nothing is written.
ResolveWithoutTrade ==
    /\ completeTradeThrows(St) # "none"
    /\ Commit(St)
    /\ UNCHANGED <<now, inFlight, resolvedAt, resolutions>>
    /\ Idle

StartAutoMode ==
    /\ Commit(startAutoMode(St))
    /\ UNCHANGED <<now, inFlight, resolvedAt, resolutions>>
    /\ Idle

StopAutoMode ==
    /\ Commit(stopAutoMode(St))
    /\ UNCHANGED <<now, inFlight, resolvedAt, resolutions>>
    /\ Idle

\* resetSystem, when the timers it leaves behind stay within the bound
ResetSystem ==
    /\ initPc = "idle"
    /\ \A k \in Kinds :
         orphanTimers[k] + (IF intervals[k] = "scheduled" THEN 1 ELSE 0) <= MaxOrphanTimers
    /\ Commit(resetSystem(St))
    /\ initPc' = "start"
    /\ resolvedAt' = null
    /\ resolutions' = <<>>
    /\ UNCHANGED <<now, inFlight, simScheduled>>

\* init() called by resetSystem's timeout, up to its first await:
\* loadStoredData, initUI, then testConnection
InitStart ==
    /\ initPc = "start"
    /\ Commit(loadStoredData(St))
    /\ initPc' = "testConnection"
    /\ resolvedAt' = IF storage.state # null THEN null ELSE resolvedAt
    /\ UNCHANGED resolutions
    /\ UNCHANGED <<now, inFlight, simScheduled>>

TestConnectionDone ==
    /\ initPc = "testConnection"
    /\ initPc' = "loadTicker"
    /\ Commit(St)
    /\ UNCHANGED <<now, inFlight, simScheduled, resolvedAt, resolutions>>

LoadTickerDone ==
    /\ initPc = "loadTicker"
    /\ \E p \in TickerPrices : Commit(updatePriceData(St, p))
    /\ initPc' = "loadCandles"
    /\ UNCHANGED <<now, inFlight, simScheduled, resolvedAt, resolutions>>

\* the candles arrived: the rest of loadInitialData and of init()
LoadCandlesDone ==
    /\ initPc = "loadCandles"
    /\ \E c \in CandleIds :
         LET s1 == calculateIndicators([St EXCEPT !.candles = c])
             s2 == startAutoMode(s1)
         IN Commit(saveData([s2 EXCEPT !.isInitialized = TRUE]))
    /\ initPc' = "idle"
    /\ UNCHANGED <<now, inFlight, simScheduled, resolvedAt, resolutions>>

\* an await of init() threw: the catch calls useSimulationMode
InitFails ==
    /\ initPc \in {"testConnection", "loadTicker", "loadCandles"}
    /\ ~simScheduled
    /\ \E price \in SimPrices, rsi \in SimRsi, trend \in {"bullish", "bearish"},
          volatility \in SimVolatility, pricePosition \in SimPricePosition :
         Commit(useSimulationMode(St, price, rsi, trend, volatility, pricePosition))
    /\ initPc' = "idle"
    /\ simScheduled' = TRUE
    /\ UNCHANGED <<now, inFlight, resolvedAt, resolutions>>

\* generateSimulatedSignal, 5 s after useSimulationMode.  A trade is opened
\* only at a positive price: the model does not follow a record whose entry
\* price is 0.00 and whose position size is NaN.
generateSimulatedSignal ==
    /\ simScheduled
    /\ LET action == SimulatedAction(indicators.rsi)
           signal == [action |-> action, price |-> currentPrice]
       IN IF action # "HOLD"
          THEN /\ nextId <= MaxTrades
               /\ currentPrice > 0
               /\ Commit(OpenTrade(St, signal))
          ELSE Commit(St)
    /\ simScheduled' = FALSE
    /\ UNCHANGED <<now, inFlight, initPc, resolvedAt, resolutions>>

\* The page is loaded again: initTradingSystem builds a new AutoTradingSystem
\* over the same localStorage and runs init() up to its first await.
Reload ==
    /\ Commit(loadStoredData([FreshState(St) EXCEPT
                                 !.candles = "none",
                                 !.intervals = [k \in Kinds |-> "null"],
                                 !.orphanTimers = [k \in Kinds |-> 0]]))
    /\ inFlight' = 0
    /\ initPc' = "testConnection"
    /\ simScheduled' = FALSE
    /\ resolvedAt' = null
    /\ UNCHANGED <<now, resolutions>>

\* One page session: init() and what follows it, the timers, the user's manual
\* signal and manual check.
Next ==
    \/ AdvanceTime
    \/ SignalTimerFires
    \/ manualGenerateSignal
    \/ GenerateSignalDone
    \/ GenerateSignalFails
    \/ PriceTick
    \/ PriceTickFails
    \/ ChartTick
    \/ ChartTickFails
    \/ manualCheckTrade
    \/ ResolveWithoutTrade
    \/ TestConnectionDone
    \/ LoadTickerDone
    \/ LoadCandlesDone
    \/ InitFails
    \/ generateSimulatedSignal

Spec == Init /\ [][Next]_vars

\* Sessions over the same localStorage, one page load after another, each with
\* the API reachable, and without the manual override of the cooldown.
NextReload ==
    \/ AdvanceTime
    \/ SignalTimerFires
    \/ GenerateSignalDone
    \/ GenerateSignalFails
    \/ PriceTick
    \/ PriceTickFails
    \/ ChartTick
    \/ ChartTickFails
    \/ manualCheckTrade
    \/ TestConnectionDone
    \/ LoadTickerDone
    \/ LoadCandlesDone
    \/ Reload

SpecReload == Init /\ [][NextReload]_vars

\* updateStats called with one result and pnl after another.
ApplyUpdateStats ==
    /\ Len(resolutions) < MaxResolutions
    /\ \E result \in {"win", "loss"} :
         \E pnl \in (IF result = "win" THEN WinPnls ELSE LossPnls) :
            /\ Commit(updateStats(St, result, pnl))
            /\ resolutions' = Append(resolutions, [result |-> result, pnl |-> pnl])
    /\ UNCHANGED <<now, inFlight, initPc, simScheduled, resolvedAt>>

\* The statistics under every sequence of at most MaxResolutions resolutions.
SpecStats == Init /\ [][ApplyUpdateStats]_vars

\* A page session with the user's reset, start and stop, the API reachable,
\* within a time too short for the clock to show a change.
NextReset ==
    \/ SignalTimerFires
    \/ GenerateSignalDone
    \/ PriceTick
    \/ ChartTick
    \/ TestConnectionDone
    \/ LoadTickerDone
    \/ LoadCandlesDone
    \/ StartAutoMode
    \/ StopAutoMode
    \/ ResetSystem
    \/ InitStart

SpecReset == Init /\ [][NextReset]_vars

\* Every operation of the program.
\* Sessions over the same localStorage with everything a session can do short
\* of a reset: the timers, the manual actions, a failed init() and its
\* simulation mode, and the page loaded again.
NextSessions ==
    \/ Next
    \/ Reload

SpecSessions == Init /\ [][NextSessions]_vars

\* One page session with the API reachable and the candles of loadInitialData,
\* in which the presentation calls of an opening or of a resolution may throw.
NextRender ==
    \/ AdvanceTime
    \/ SignalTimerFires
    \/ GenerateSignalDone
    \/ GenerateSignalRenderFails
    \/ PriceTick
    \/ PriceTickRenderFails
    \/ manualCheckTrade
    \/ TestConnectionDone
    \/ LoadTickerDone
    \/ LoadCandlesDone

SpecRender == Init /\ [][NextRender]_vars

\* A long session: the user forces one signal after another, each ticker
\* delivers the same price, and each trade is resolved at its second target.
HistoryManualSignal ==
    /\ inFlight = 0
    /\ manualGenerateSignal

HistorySignalDone ==
    /\ inFlight > 0
    /\ \E p \in HistoryPrices :
         /\ SignalFor(St, p).action # "HOLD" => nextId <= MaxHistoryTrades
         /\ Commit(generateSignalResume(St, Some(p)))
    /\ inFlight' = inFlight - 1
    /\ UNCHANGED <<now, resolvedAt, resolutions>>
    /\ Idle

HistoryPriceTick ==
    /\ TimerScheduled("price")
    /\ activeTrade # null
    /\ \E p \in {Val(activeTrade).tp2} : RunCheck(priceTickHandler(St, Some(p)))
    /\ UNCHANGED <<now, inFlight>>
    /\ Idle

\* The page is loaded again once the history is full.
HistoryReload ==
    /\ Len(signalHistory) = HistoryLimit
    /\ Reload

NextHistory ==
    \/ TestConnectionDone
    \/ LoadTickerDone
    \/ LoadCandlesDone
    \/ HistoryManualSignal
    \/ HistorySignalDone
    \/ HistoryPriceTick
    \/ HistoryReload

SpecHistory == Init /\ [][NextHistory]_vars

\* analyzeMarket and the opening that follows it in generateSignal, applied
\* once to an indicator snapshot at the price 100.00.
AnalyzeSnapshot ==
    /\ activeTrade = null
    /\ currentPrice = 0
    /\ \E rsi \in AnalyzeRsi, trend \in AnalyzeTrends, volatility \in AnalyzeVolatility,
          pricePosition \in AnalyzePricePosition :
         LET s1 == [St EXCEPT !.currentPrice = 10000,
                              !.indicators = [DefaultIndicators EXCEPT
                                                 !.rsi = rsi, !.trend = trend,
                                                 !.volatility = volatility,
                                                 !.pricePosition = pricePosition]]
             signal == analyzeMarket(s1)
         IN Commit(IF signal.action # "HOLD" THEN saveData(OpenTrade(s1, signal)) ELSE s1)
    /\ UNCHANGED <<now, inFlight, initPc, simScheduled, resolvedAt, resolutions>>

SpecAnalyze == Init /\ [][AnalyzeSnapshot]_vars

\* The opening that follows a BUY or SELL signal in generateSignal, at one
\* entry price after another.
OpenAtPrice ==
    /\ activeTrade = null
    /\ currentPrice = 0
    /\ \E action \in {"BUY", "SELL"}, price \in ParamPrices :
         Commit(saveData(OpenTrade([St EXCEPT !.currentPrice = price],
                                   [action |-> action, confidence |-> 65,
                                    price |-> price])))
    /\ UNCHANGED <<now, inFlight, initPc, simScheduled, resolvedAt, resolutions>>

\* The price handler when the ticker delivers the stop level of the trade.
StopOutAtSl ==
    /\ activeTrade # null
    /\ RunCheck(priceTickHandler(St, Some(Val(activeTrade).sl)))
    /\ UNCHANGED <<now, inFlight, initPc, simScheduled>>

NextParams ==
    \/ OpenAtPrice
    \/ StopOutAtSl

SpecParams == Init /\ [][NextParams]_vars

\* One page session with the API reachable, in which the candle request of the
\* chart timer may be answered with fewer than 20 candles.
NextCandles ==
    \/ SignalTimerFires
    \/ GenerateSignalDone
    \/ PriceTick
    \/ ChartTick
    \/ ChartTickShort
    \/ TestConnectionDone
    \/ LoadTickerDone
    \/ LoadCandlesDone

SpecCandles == Init /\ [][NextCandles]_vars

NextAll ==
    \/ Next
    \/ Reload
    \/ StartAutoMode
    \/ StopAutoMode
    \/ ResetSystem
    \/ InitStart

SpecAll == Init /\ [][NextAll]_vars

(***************************************************************************)
(* Properties                                                              *)
(***************************************************************************)
Terminal == {"hit_tp1", "hit_tp2", "hit_sl"}

SeqSet(q) == {q[i] : i \in DOMAIN q}

\* The trade records a state holds: the slot, the history, and the two
\* localStorage items.
RecordsOf(slot, history, store) ==
    (IF slot = null THEN {} ELSE {Val(slot)})
    \cup SeqSet(history)
    \cup (IF store.signals = null THEN {} ELSE SeqSet(Val(store.signals)))
    \cup (IF store.state = null \/ Val(store.state).activeTrade = null THEN {}
          ELSE {Val(Val(store.state).activeTrade)})

\* The ids of the trades whose status is 'active', in the slot or in the history.
ActiveIds ==
    {r.id : r \in {x \in RecordsOf(activeTrade, signalHistory, EmptyStorage) :
                     x.status = "active"}}

\* C1: in every reachable state at most one trade has status 'active',
\* counting the active-trade slot and every entry of the history.
SinglePosition == Cardinality(ActiveIds) <= 1

\* A record a and the record b of the same trade one step later.
StatusStep(a, b) ==
    /\ b.status \in Terminal \cup {"active"}
    /\ IF a.status = "active"
       THEN b = a \/ (b.status \in Terminal /\ b.result \in {"win", "loss"})
       ELSE b = a

\* C2: a trade's status changes only from 'active' to one of hit_tp1, hit_tp2,
\* hit_sl, and a record with a terminal status is never changed again, by a
\* price tick, a manual check, a signal check or a reload.
TerminalIsFinal ==
    [][\A a \in RecordsOf(activeTrade, signalHistory, storage) :
         \A b \in RecordsOf(activeTrade', signalHistory', storage') :
            a.id = b.id => StatusStep(a, b)]_vars

\* a resolved trade has come back from localStorage at a page load
TerminalIsFinalWitness ==
    /\ initPc = "testConnection"
    /\ \E r \in SeqSet(signalHistory) : r.status \in Terminal

\* C3: a step of generateSignal or generateSimulatedSignal that comes to open
\* a trade while a trade is active leaves the active trade, the history and
\* the statistics as they were.
OpenWhileActiveRejected ==
    [][(activeTrade # null /\ nextId' # nextId)
         => UNCHANGED <<activeTrade, signalHistory, stats>>]_vars

\* C4: completeTrade with no active trade fails with InvalidStateError.
ResolveWithoutTradeInvalidState ==
    activeTrade = null => completeTradeThrows(St) = "InvalidStateError"

\* The price handler's updatePriceData and checkTradeConditions for a ticker
\* price p; the manual check is the same for the price the state holds.
Evaluate(p) == checkTradeConditions(updatePriceData(St, p))

ResolvedAs(s2, status, result) ==
    /\ s2.done # null
    /\ Val(s2.done).status = status
    /\ Val(s2.done).result = result
    /\ s2.activeTrade = null
    /\ s2.stats.totalTrades = stats.totalTrades + 1

StaysActive(s2) ==
    /\ s2.done = null
    /\ s2.activeTrade = activeTrade
    /\ s2.signalHistory = signalHistory
    /\ s2.stats = stats
    /\ s2.cooldownEnd = cooldownEnd

\* The prices a check can meet: a ticker price, or the price the state holds.
CheckPrices == TickerPrices \cup {currentPrice}

\* The state after a check at price p: the price handler's for a ticker price,
\* the manual check's for the price the state holds.
Checked(p) == IF p = currentPrice THEN checkTradeConditions(St) ELSE Evaluate(p)

\* The outcome the BUY rule gives for a trade t and a price p.
BuyRule(t, p, s2) ==
    IF p >= t.tp2 THEN ResolvedAs(s2, "hit_tp2", "win")
    ELSE IF p >= t.tp1 THEN ResolvedAs(s2, "hit_tp1", "win")
    ELSE IF p <= t.sl THEN ResolvedAs(s2, "hit_sl", "loss")
    ELSE StaysActive(s2)

\* C5, as stated: for an active BUY trade and every price p, p >= tp2 resolves
\* it as a win with hit_tp2, otherwise p >= tp1 as a win with hit_tp1,
\* otherwise p <= sl as a loss with hit_sl, otherwise it stays active; a
\* resolution counts one trade.
BuyEvaluationAnyPrice ==
    (activeTrade # null /\ Val(activeTrade).action = "BUY") =>
        \A p \in CheckPrices : BuyRule(Val(activeTrade), p, Checked(p))

\* C5, amended: the same for every price p > 0; with the price 0 (no price
\* received yet) the check does nothing and the trade stays active.
BuyEvaluation ==
    (activeTrade # null /\ Val(activeTrade).action = "BUY") =>
        \A p \in CheckPrices :
            IF p = 0 THEN StaysActive(Checked(p))
            ELSE BuyRule(Val(activeTrade), p, Checked(p))

\* a BUY trade was resolved at tp2 by a price that also cleared tp1, and a
\* later BUY trade is active with the price still 0 after a page load
BuyEvaluationWitness ==
    /\ activeTrade # null
    /\ Val(activeTrade).action = "BUY"
    /\ currentPrice = 0
    /\ \E r \in SeqSet(signalHistory) :
          /\ r.action = "BUY"
          /\ r.status = "hit_tp2"
          /\ Val(r.exitPrice) >= r.tp2
          /\ r.tp2 > r.tp1

\* The outcome the SELL rule gives for a trade t and a price p.
SellRule(t, p, s2) ==
    IF p <= t.tp2 THEN ResolvedAs(s2, "hit_tp2", "win")
    ELSE IF p <= t.tp1 THEN ResolvedAs(s2, "hit_tp1", "win")
    ELSE IF p >= t.sl THEN ResolvedAs(s2, "hit_sl", "loss")
    ELSE StaysActive(s2)

\* C6, as stated: for an active SELL trade and every price p, however low,
\* p <= tp2 resolves it as a win with hit_tp2, otherwise p <= tp1 as a win
\* with hit_tp1, otherwise p >= sl as a loss with hit_sl, otherwise it stays
\* active.
SellEvaluationAnyPrice ==
    (activeTrade # null /\ Val(activeTrade).action = "SELL") =>
        \A p \in CheckPrices : SellRule(Val(activeTrade), p, Checked(p))

\* C6, amended: the same for every price p > 0; with the price 0 (no price
\* received yet) the check does nothing and the trade stays active.
SellEvaluation ==
    (activeTrade # null /\ Val(activeTrade).action = "SELL") =>
        \A p \in CheckPrices :
            IF p = 0 THEN StaysActive(Checked(p))
            ELSE SellRule(Val(activeTrade), p, Checked(p))

\* a SELL trade was resolved at tp1, and a later SELL trade is active with the
\* price still 0 after a page load
SellEvaluationWitness ==
    /\ activeTrade # null
    /\ Val(activeTrade).action = "SELL"
    /\ currentPrice = 0
    /\ \E r \in SeqSet(signalHistory) :
          /\ r.action = "SELL"
          /\ r.status = "hit_tp1"
          /\ Val(r.exitPrice) <= r.tp1
          /\ Val(r.exitPrice) > r.tp2

\* C7: the pnl of a resolved trade is (exitPrice - entry) * (positionSize /
\* entry) for a BUY trade and the negative of it for a SELL trade, with the
\* stored exitPrice, to the cent pnl is stored in.
PnlFromExitPrice ==
    \A r \in SeqSet(signalHistory) :
        r.status \in Terminal =>
            LET diff == IF r.action = "BUY" THEN Val(r.exitPrice) - r.price
                        ELSE r.price - Val(r.exitPrice)
            IN 2 * Abs(Val(r.pnl) * r.price - diff * r.positionSize) <= r.price

\* C8: a step that resolves the active trade (it counts a trade) sets, in that
\* one step, the trade's status, result, exitPrice and completedAt, clears the
\* active-trade slot, and sets the cooldown's end to the time of the step plus
\* cooldownSeconds.
ResolutionInOneStep ==
    [][stats'.totalTrades # stats.totalTrades
       => /\ activeTrade # null
          /\ activeTrade' = null
          /\ stats'.totalTrades = stats.totalTrades + 1
          /\ now' = now
          /\ cooldownEnd' = Some(now + cooldownSeconds)
          /\ LET d == Evaluate(currentPrice').done
             IN /\ d # null
                /\ Val(d).id = Val(activeTrade).id
                /\ Val(d).status \in Terminal
                /\ Val(d).result \in {"win", "loss"}
                /\ Val(d).exitPrice = Some(currentPrice')
                /\ Val(d).completedAt = Some(now)
                /\ aliased => signalHistory'[1] = Val(d)]_vars

\* a trade was resolved in this state at a time after 0
ResolutionInOneStepWitness ==
    /\ now > 0
    /\ activeTrade = null
    /\ cooldownEnd = Some(now + cooldownSeconds)
    /\ signalHistory # <<>>
    /\ signalHistory[1].status \in Terminal
    /\ signalHistory[1].completedAt = Some(now)

\* C9: with the last resolution at time T, isInCooldown is true at every time
\* t with T <= t < T + cooldownSeconds and false at every t >= T +
\* cooldownSeconds; with no cooldown set it is false.
CooldownWindow ==
    /\ cooldownEnd = null => ~isInCooldown(St)
    /\ resolvedAt # null =>
          /\ Val(resolvedAt) <= now
          /\ isInCooldown(St) <=> now < Val(resolvedAt) + cooldownSeconds

\* the clock stands at the end of the window of a resolution
CooldownWindowWitness ==
    /\ resolvedAt # null
    /\ now = Val(resolvedAt) + cooldownSeconds
    /\ cooldownEnd # null
    /\ ~isInCooldown(St)

\* C10: no trade is opened at a moment when a cooldown window is active.
NoOpenInCooldown ==
    [][nextId' # nextId => ~isInCooldown(St)]_vars

\* C11: a signal-check tick that starts while the cooldown is active or a trade
\* is open issues no fetch and leaves the current price, the indicators, the
\* active trade, the history, the statistics and the cooldown end as they
\* were, and so does the same tick repeated.
GuardedSignalTickIsNoOp ==
    (isInCooldown(St) \/ activeTrade # null) =>
        /\ generateSignalStart(St) = St
        /\ ~generateSignalStart(St).fetch
        /\ generateSignalStart(generateSignalStart(St)) = St

\* the signal timer is scheduled during the cooldown that followed a resolution
GuardedSignalTickWitness ==
    /\ TimerScheduled("signal")
    /\ isInCooldown(St)
    /\ activeTrade = null
    /\ stats.totalTrades > 0

\* C12: when a suspended signal check resumes with a price p, an analysis of
\* HOLD leaves the active-trade slot, the history, the statistics and the
\* cooldown as they were; an analysis of BUY or SELL puts a trade with status
\* 'active' and no result in the slot and the same trade at the head of the
\* history.
HoldOpensNothing ==
    inFlight > 0 =>
        \A p \in TickerPrices :
            LET signal == SignalFor(St, p)
                s2 == generateSignalAfterFetch(St, p)
            IN IF signal.action = "HOLD"
               THEN /\ s2.activeTrade = activeTrade
                    /\ s2.signalHistory = signalHistory
                    /\ s2.stats = stats
                    /\ s2.cooldownEnd = cooldownEnd
               ELSE /\ s2.activeTrade # null
                    /\ Val(s2.activeTrade).action = signal.action
                    /\ Val(s2.activeTrade).status = "active"
                    /\ Val(s2.activeTrade).result = "none"
                    /\ s2.aliased
                    /\ s2.signalHistory = <<Val(s2.activeTrade)>> \o signalHistory
                    /\ s2.stats = stats
                    /\ s2.cooldownEnd = cooldownEnd

\* two signal checks are suspended on their fetch after init() has ended, and
\* the analysis of the next one to resume will be HOLD
HoldOpensNothingWitness ==
    /\ inFlight > 1
    /\ initPc = "idle"
    /\ \E p \in TickerPrices : SignalFor(St, p).action = "HOLD"

\* C13: after resetSystem, until init() runs again, no tick scheduled or in
\* flight from before the reset changes the cleared state: the slot stays
\* empty, the history empty, the statistics zero and the cooldown unset.
ResetStateStaysCleared ==
    initPc = "start" =>
        /\ activeTrade = null
        /\ signalHistory = <<>>
        /\ stats = DefaultStats
        /\ cooldownEnd = null

\* C14: in whatever state stopAutoMode is called, after whatever starts, stops
\* and resets, it leaves none of the three periodic triggers scheduled, so
\* none fires until a later start.
StopCancelsTimers ==
    LET s2 == stopAutoMode(St)
    IN \A k \in Kinds : s2.intervals[k] # "scheduled" /\ s2.orphanTimers[k] = 0

\* C15: a price, chart or signal tick whose fetch fails leaves the whole state
\* as it was: the current price, the active trade, the history, the
\* statistics, the cooldown and the scheduled timers; it issues no new fetch.
FailedTickSkipped ==
    /\ priceTickHandler(St, null) = St
    /\ chartTickHandler(St, null) = St
    /\ generateSignalResume(St, null) = St

\* a trade is active, the timers are scheduled, and a signal check is
\* suspended on a fetch that may fail
FailedTickSkippedWitness ==
    /\ \A k \in Kinds : TimerScheduled(k)
    /\ activeTrade # null
    /\ inFlight > 0

RECURSIVE TrailingWins(_)
\* the number of consecutive wins at the end of a sequence of resolutions
TrailingWins(q) ==
    IF q = <<>> \/ q[Len(q)].result # "win" THEN 0
    ELSE 1 + TrailingWins(SubSeq(q, 1, Len(q) - 1))

\* the longest run of consecutive wins in a sequence of resolutions
LongestWinRun(q) ==
    LET runs == {TrailingWins(SubSeq(q, 1, i)) : i \in 0..Len(q)}
    IN CHOOSE m \in runs : \A r \in runs : r <= m

\* wins of pnl 1, 2, 3 and then a loss of pnl -1
StreakExample ==
    <<[result |-> "win", pnl |-> 10000], [result |-> "win", pnl |-> 20000],
      [result |-> "win", pnl |-> 30000], [result |-> "loss", pnl |-> -10000]>>

\* C16: after every sequence of resolutions currentStreak is the number of
\* consecutive wins at the end of the sequence and bestStreak the longest run
\* of consecutive wins in it; wins of 1, 2, 3 and a loss of -1 give
\* currentStreak 0, bestStreak 3 and totalPnL 5.
StreaksFollowResults ==
    /\ stats.currentStreak = TrailingWins(resolutions)
    /\ stats.bestStreak = LongestWinRun(resolutions)
    /\ resolutions = StreakExample =>
          stats.currentStreak = 0 /\ stats.bestStreak = 3 /\ stats.totalPnL = 50000

\* the statistics after wins of 1, 2, 3 and a loss of -1
StreaksFollowResultsWitness ==
    /\ resolutions = StreakExample
    /\ stats.totalTrades = 4
    /\ stats.bestStreak = 3

RECURSIVE SumPnl(_, _)
\* the sum of the pnl of the resolutions of q whose result is in the set results
SumPnl(q, results) ==
    IF q = <<>> THEN 0
    ELSE (IF q[1].result \in results THEN q[1].pnl ELSE 0) + SumPnl(Tail(q), results)

\* the number of wins in a sequence of resolutions
Wins(q) == Cardinality({i \in DOMAIN q : q[i].result = "win"})

\* C17: after every sequence of resolutions totalTrades is their number,
\* winningTrades the number of wins among them, totalPnL the sum of the signed
\* pnl of them all, wins and losses, and avgWin times winningTrades the sum of
\* the winning pnl (to the rounding of the average kept in 1/10000 dollar).
StatsAccumulate ==
    LET wins == Wins(resolutions)
    IN /\ stats.totalTrades = Len(resolutions)
       /\ stats.winningTrades = wins
       /\ stats.totalPnL = SumPnl(resolutions, {"win", "loss"})
       /\ 4 * Abs(stats.avgWin * wins - SumPnl(resolutions, {"win"})) <= wins * (wins + 1)

\* three resolutions, wins and a loss among them, with a negative pnl counted
StatsAccumulateWitness ==
    /\ Len(resolutions) = 3
    /\ Wins(resolutions) = 2
    /\ resolutions[2].result = "loss"
    /\ stats.totalPnL = 40000

ResolutionCountedOnce == stats.totalTrades <= nextId - 1

\* C20: a trade that was resolved has left the slot, presentation failing or
\* not.
ResolvedTradeLeavesSlot == activeTrade # null => Val(activeTrade).status = "active"

\* the ids of the trades of a history, in its order
HistoryIds(h) == [i \in DOMAIN h |-> h[i].id]

\* the ids of the n most recently opened trades when the next id is next,
\* newest first
NewestIds(next, n) == [i \in 1..n |-> next - i]

\* C19: the history, in memory and in storage, never holds more than 20
\* trades; it holds the 20 most recently opened ones (all of them while there
\* are fewer), newest first, so an addition to a full history has evicted the
\* oldest entry only; and the trade in the slot is in the history.
BoundedHistory ==
    /\ Len(signalHistory) <= HistoryLimit
    /\ storage.signals # null => Len(Val(storage.signals)) <= HistoryLimit
    /\ HistoryIds(signalHistory) = NewestIds(nextId, Min(HistoryLimit, nextId - 1))
    /\ activeTrade # null =>
          \E i \in DOMAIN signalHistory : signalHistory[i].id = Val(activeTrade).id

\* more than 20 trades were opened, the last one is still active, and the
\* history is full
BoundedHistoryWitness ==
    /\ nextId - 1 > HistoryLimit
    /\ Len(signalHistory) = HistoryLimit
    /\ activeTrade # null
    /\ Val(activeTrade).id = nextId - 1

\* C21: a failed init() starts no fallback mode: the step in which init()
\* gives up leaves the current price and the indicator snapshot as they were
\* and opens no trade.
NoFallbackMode ==
    [][(~simScheduled /\ simScheduled') =>
          /\ currentPrice' = currentPrice
          /\ indicators' = indicators
          /\ activeTrade' = activeTrade]_vars

\* the state with the volatility of the snapshot set to v
WithVolatility(s, v) == [s EXCEPT !.indicators.volatility = v]

\* C22: for every indicator snapshot the confidence of the signal is within
\* [0.30, 0.95]; at a volatility above highVolatility the action is the one of
\* the calm market, and the confidence is 0.8 times the calm confidence (to the
\* cent the signal keeps) wherever the calm confidence was not cut at 0.95.
ConfidenceRange ==
    LET signal == analyzeMarket(St)
        calm == analyzeMarket(WithVolatility(St, 0))
        rough == analyzeMarket(WithVolatility(St, highVolatility + 1))
    IN /\ signal.confidence >= 30 /\ signal.confidence <= 95
       /\ rough.action = calm.action
       /\ rough.confidence <= calm.confidence
       /\ calm.confidence < 95 => Abs(10 * rough.confidence - 8 * calm.confidence) <= 10
       /\ indicators.volatility <= highVolatility => signal = calm
       /\ indicators.volatility > highVolatility => signal = rough

\* a trade opened from a snapshot with high volatility whose confidence was
\* cut at 0.95 after the multiplication
ConfidenceRangeWitness ==
    /\ activeTrade # null
    /\ indicators.volatility > highVolatility
    /\ analyzeMarket(St).confidence = 95
    /\ analyzeMarket(St).action = Val(activeTrade).action

\* C23: below the oversold threshold the action is BUY for a bullish or
\* neutral trend and HOLD for a bearish one; above the overbought threshold it
\* is SELL for a bearish or neutral trend and HOLD for a bullish one; in both
\* cases whatever pricePosition is.
RsiRulesFirst ==
    LET signal == analyzeMarket(St)
    IN /\ indicators.rsi < rsiOversold =>
            signal.action = (IF indicators.trend \in {"bullish", "neutral"}
                             THEN "BUY" ELSE "HOLD")
       /\ indicators.rsi > rsiOverbought =>
            signal.action = (IF indicators.trend \in {"bearish", "neutral"}
                             THEN "SELL" ELSE "HOLD")
       /\ activeTrade # null => Val(activeTrade).action = signal.action

\* a BUY trade opened at an oversold rsi where the pricePosition rule alone
\* would have said SELL
RsiRulesFirstWitness ==
    /\ activeTrade # null
    /\ Val(activeTrade).action = "BUY"
    /\ indicators.rsi < rsiOversold
    /\ indicators.trend = "neutral"
    /\ indicators.pricePosition > 7000

\* the signal of the state's snapshot in a calm market
CalmSignal == analyzeMarket(WithVolatility(St, 0))

\* C24: with rsi from oversold to overbought: inside the neutral band, its
\* bounds rsiNeutralMin and rsiNeutralMax included, the action is HOLD with
\* confidence 0.6; outside it BUY 0.65 for pricePosition < 30 and a trend not
\* bearish, else SELL 0.65 for pricePosition > 70 and a trend not bullish, else
\* HOLD.
NeutralBandInclusive ==
    (indicators.rsi >= rsiOversold /\ indicators.rsi <= rsiOverbought) =>
        IF indicators.rsi >= rsiNeutralMin /\ indicators.rsi <= rsiNeutralMax
        THEN CalmSignal.action = "HOLD" /\ CalmSignal.confidence = 60
        ELSE IF indicators.pricePosition < 3000 /\ indicators.trend # "bearish"
        THEN CalmSignal.action = "BUY" /\ CalmSignal.confidence = 65
        ELSE IF indicators.pricePosition > 7000 /\ indicators.trend # "bullish"
        THEN CalmSignal.action = "SELL" /\ CalmSignal.confidence = 65
        ELSE CalmSignal.action = "HOLD"

\* the same with the two bounds of the band left out of it
NeutralBandExclusive ==
    (indicators.rsi >= rsiOversold /\ indicators.rsi <= rsiOverbought) =>
        IF indicators.rsi > rsiNeutralMin /\ indicators.rsi < rsiNeutralMax
        THEN CalmSignal.action = "HOLD" /\ CalmSignal.confidence = 60
        ELSE IF indicators.pricePosition < 3000 /\ indicators.trend # "bearish"
        THEN CalmSignal.action = "BUY" /\ CalmSignal.confidence = 65
        ELSE IF indicators.pricePosition > 7000 /\ indicators.trend # "bullish"
        THEN CalmSignal.action = "SELL" /\ CalmSignal.confidence = 65
        ELSE CalmSignal.action = "HOLD"

\* the trade records of the state: the slot's and the history's
TradesOf == (IF activeTrade = null THEN {} ELSE {Val(activeTrade)}) \cup SeqSet(signalHistory)

\* the levels of a trade lie on the correct sides of its entry price
LevelsOrdered(t) ==
    IF t.action = "BUY" THEN t.sl < t.price /\ t.price < t.tp1 /\ t.tp1 < t.tp2
    ELSE t.tp2 < t.tp1 /\ t.tp1 < t.price /\ t.price < t.sl

\* the smallest of tp1Percent, tp2Percent - tp1Percent and slPercent
MinGapPermille == Min(tp1Percent, Min(tp2Percent - tp1Percent, slPercent))

\* C25: every trade, at every positive entry price, has its stored
\* levels in the order sl < entry < tp1 < tp2 (BUY) or tp2 < tp1 < entry < sl
\* (SELL).
LevelsOrderedAnyPrice == \A t \in TradesOf : LevelsOrdered(t)

\* every trade whose entry price times the smallest gap between two levels
\* exceeds one cent has its stored levels in that order
LevelsOrderedAboveCent ==
    \A t \in TradesOf : t.price * MinGapPermille > 1000 => LevelsOrdered(t)

\* balance x riskPerTrade and balance x maxPositionPercent, in cents
RiskAmount == (accountBalance * riskPerTrade) \div 1000
PositionCap == (accountBalance * maxPositionPercent) \div 1000

\* riskAmount / (|entry - sl| / entry) from the levels a trade record holds; a
\* stop level equal to the entry makes the quotient infinite and the cap decide
RiskSizedPosition(t) ==
    IF t.price = t.sl THEN PositionCap
    ELSE LET risk == Abs(t.price - t.sl)
         IN Min((RiskAmount * t.price + risk \div 2) \div risk, PositionCap)

\* C26: the position size of every trade is the smaller of the risk-sized
\* position and balance x maxPositionPercent, so it never exceeds that cap;
\* and the loss of a trade stopped out at sl, as completeTrade computes it and
\* as the record keeps it, never exceeds balance x riskPerTrade.
PositionSizeBounded ==
    /\ \A t \in TradesOf :
          /\ t.positionSize = RiskSizedPosition(t)
          /\ t.positionSize <= PositionCap
          /\ TradePnl(t, "loss", 0) >= -(RiskAmount * 100)
          /\ t.status = "hit_sl" => Val(t.pnl) >= -RiskAmount
    /\ \A i \in DOMAIN resolutions :
          resolutions[i].result = "loss" => resolutions[i].pnl >= -(RiskAmount * 100)

\* a trade opened at 100.00 and stopped out at its sl with a loss
PositionSizeBoundedWitness ==
    /\ activeTrade = null
    /\ Len(signalHistory) = 1
    /\ signalHistory[1].status = "hit_sl"
    /\ signalHistory[1].price = 10000
    /\ Val(signalHistory[1].pnl) < 0
    /\ Len(resolutions) = 1 /\ resolutions[1].result = "loss"

\* C27: while fewer than 20 candles are held, the indicator snapshot is the
\* neutral one: rsi 50, trend neutral, volatility 0, pricePosition 50.
NeutralWhenFewCandles ==
    Len(CandleBatch(candles)) < 20 =>
        /\ indicators.rsi = 5000
        /\ indicators.trend = "neutral"
        /\ indicators.volatility = 0
        /\ indicators.pricePosition = 5000

\* C28: in every state the pricePosition of the snapshot is within [0, 100],
\* and it is 50 whenever the snapshot's resistance is not above its support.
PricePositionSound ==
    /\ indicators.pricePosition >= 0
    /\ indicators.pricePosition <= 10000
    /\ indicators.resistance <= indicators.support => indicators.pricePosition = 5000

\* the range alone
PricePositionInRange ==
    indicators.pricePosition >= 0 /\ indicators.pricePosition <= 10000

(***************************************************************************)
(* calculateRSI on closes that only rise or only fall                      *)
(***************************************************************************)
NeverFalls(closes) == \A i \in 1..(Len(closes) - 1) : closes[i + 1] >= closes[i]
NeverRises(closes) == \A i \in 1..(Len(closes) - 1) : closes[i + 1] <= closes[i]
FallsOnce(closes) == \E i \in 1..(Len(closes) - 1) : closes[i + 1] < closes[i]
RisesOnce(closes) == \E i \in 1..(Len(closes) - 1) : closes[i + 1] > closes[i]
StaysOnce(closes) == \E i \in 1..(Len(closes) - 1) : closes[i + 1] = closes[i]

\* C29: calculateRSI gives 100 for 14 or more closes none of which is below
\* the one before it, and 50 for fewer than 14 closes.
RisingGivesHundred ==
    LET closes == ClosesOf(candles)
    IN /\ Len(closes) < 14 => calculateRSI(closes) = 5000
       /\ Len(closes) >= 14 /\ NeverFalls(closes) => calculateRSI(closes) = 10000
\* calculateRSI has been applied to exactly 14 closes that rise, with two
\* equal closes among them, and has stored 100.
RisingGivesHundredWitness ==
    LET closes == ClosesOf(candles)
    IN /\ Len(closes) = 14
       /\ NeverFalls(closes) /\ RisesOnce(closes) /\ StaysOnce(closes)
       /\ indicators.rsi = 10000

\* C30 as stated: calculateRSI gives 0 for 14 or more closes none of which is
\* above the one before it, equal consecutive closes included.
FallingGivesZero ==
    LET closes == ClosesOf(candles)
    IN Len(closes) >= 14 /\ NeverRises(closes) => calculateRSI(closes) = 0
\* C30 amended: calculateRSI gives 0 for 14 or more closes none of which is
\* above the one before it and at least one of which is below the one before
\* it; for 14 or more equal closes it gives 100.
FallingOnceGivesZero ==
    LET closes == ClosesOf(candles)
    IN /\ Len(closes) >= 14 /\ NeverRises(closes) /\ FallsOnce(closes)
            => calculateRSI(closes) = 0
       /\ Len(closes) >= 14 /\ NeverRises(closes) /\ NeverFalls(closes)
            => calculateRSI(closes) = 10000
\* calculateRSI has been applied to more than 14 closes whose only fall is the
\* last step, and has stored 0.
FallingOnceGivesZeroWitness ==
    LET closes == ClosesOf(candles)
        n == Len(closes)
    IN /\ n > 14
       /\ \A i \in 1..(n - 2) : closes[i + 1] = closes[i]
       /\ closes[n] < closes[n - 1]
       /\ indicators.rsi = 0
(***************************************************************************)
(* The active slot and the trades opened                                   *)
(***************************************************************************)
\* The slot goes from empty to a trade, from a trade to empty, or keeps the
\* trade it holds.
SlotStep ==
    activeTrade # null /\ activeTrade' # null => Val(activeTrade').id = Val(activeTrade).id

\* The trades put in the slot since the page was loaded (each takes the next
\* id) are the resolved ones and the one in the slot.
OpenedAccounted ==
    nextId - 1 = stats.totalTrades + (IF activeTrade = null THEN 0 ELSE 1)

\* C31: no opened trade is lost: the trades ever put in the active slot are
\* totalTrades plus the one now active, and the slot never goes from one
\* trade directly to another, whatever way signal checks, manual signals and
\* simulated signals overlap.
NoTradeLost == []OpenedAccounted /\ [][SlotStep]_vars

(***************************************************************************)
(* The cooldown in the snapshot a resolution saves                         *)
(***************************************************************************)
\* What a newly built system holds after loadStoredData over the localStorage
\* of the record s.
LoadedFrom(s) ==
    loadStoredData([FreshState(s) EXCEPT !.candles = "none",
                                         !.intervals = [k \in Kinds |-> "null"],
                                         !.orphanTimers = [k \in Kinds |-> 0]])

\* C32: the snapshot a resolution saves holds the cooldown end the resolution
\* started, so that a load right after the resolution restores a state in
\* cooldown until the resolution time plus the cooldown duration.
ResolutionPersistsCooldown ==
    [][Len(resolutions') > Len(resolutions)
         => /\ cooldownEnd' = Some(now + cooldownSeconds)
            /\ LoadedFrom(St').cooldownEnd = Some(now + cooldownSeconds)
            /\ isInCooldown(LoadedFrom(St'))]_vars

(***************************************************************************)
(* The history entry of a resolved trade                                   *)
(***************************************************************************)
\* A step that resolves the trade in the slot leaves every history entry of
\* that trade with a terminal status and with the result and the pnl of the
\* resolution.
ResolvedEntryMatches ==
    (Len(resolutions') > Len(resolutions) /\ activeTrade # null)
      => LET last == resolutions'[Len(resolutions')]
         IN \A i \in DOMAIN signalHistory' :
               signalHistory'[i].id = Val(activeTrade).id
                 => /\ signalHistory'[i].status \in Terminal
                    /\ signalHistory'[i].result = last.result
                    /\ signalHistory'[i].pnl = Some(RoundDiv(last.pnl, 100))

\* C33: whenever a trade is resolved, the history entry with its id carries
\* the terminal status, the result and the pnl of the resolved trade, also
\* when the active trade had been restored from localStorage.
HistoryEntryResolved == [][ResolvedEntryMatches]_vars

\* What the claim derives from it: a history entry with status 'active' is
\* the trade in the active slot.
ActiveEntryIsSlot ==
    \A r \in SeqSet(signalHistory) :
       r.status = "active" => activeTrade # null /\ Val(activeTrade).id = r.id

(***************************************************************************)
(* The periodic timers                                                     *)
(***************************************************************************)
\* The timers of kind k that are scheduled: the one whose handle
\* this.intervals holds, and those whose handle was overwritten.
ScheduledTimers(k) ==
    orphanTimers[k] + (IF intervals[k] = "scheduled" THEN 1 ELSE 0)

\* C34: at any time at most one periodic timer of each kind is scheduled,
\* after any sequence of start, stop, reset and re-initialisation.
OneTimerPerKind == \A k \in Kinds : ScheduledTimers(k) <= 1

(***************************************************************************)
(* Status, result and pnl of a trade record                                *)
(***************************************************************************)
StatusResultPnl(r) ==
    /\ r.status \in Terminal \cup {"active"}
    /\ r.status = "active" <=> r.result = "none"
    /\ r.status = "active" <=> r.pnl = null
    /\ r.status \in {"hit_tp1", "hit_tp2"} <=> r.result = "win"
    /\ r.status = "hit_sl" <=> r.result = "loss"
    /\ r.result = "win" => Val(r.pnl) > 0
    /\ r.result = "loss" => Val(r.pnl) < 0

\* C35: in every trade record, of a BUY or of a SELL trade, result and pnl are
\* null exactly when the status is 'active', the result is 'win' exactly when
\* the status is hit_tp1 or hit_tp2, and then pnl > 0, and the result is
\* 'loss' exactly when the status is hit_sl, and then pnl < 0.
TradeFieldsConsistent ==
    \A r \in RecordsOf(activeTrade, signalHistory, storage) : StatusResultPnl(r)

\* The same without the sign of the pnl.
StatusMatchesResult ==
    \A r \in RecordsOf(activeTrade, signalHistory, storage) :
       /\ r.status = "active" <=> r.result = "none"
       /\ r.status = "active" <=> r.pnl = null
       /\ r.status \in {"hit_tp1", "hit_tp2"} <=> r.result = "win"
       /\ r.status = "hit_sl" <=> r.result = "loss"

(***************************************************************************)
(* The order and the extremes of the statistics                            *)
(***************************************************************************)
\* the pnl of the resolutions of q with the given result
PnlsOf(q, result) == {q[i].pnl : i \in {j \in DOMAIN q : q[j].result = result}}

\* C36: in every reachable state 0 <= currentStreak <= bestStreak <=
\* winningTrades <= totalTrades and maxLoss <= 0 <= maxWin, maxWin being the
\* largest pnl of the winning resolutions since the last reset and maxLoss
\* the smallest pnl of the losing ones (0 when there is none).
StatsOrdered ==
    LET winPnls == PnlsOf(resolutions, "win")
        lossPnls == PnlsOf(resolutions, "loss")
    IN /\ 0 <= stats.currentStreak
       /\ stats.currentStreak <= stats.bestStreak
       /\ stats.bestStreak <= stats.winningTrades
       /\ stats.winningTrades <= stats.totalTrades
       /\ stats.maxLoss <= 0
       /\ 0 <= stats.maxWin
       /\ stats.maxWin \in winPnls \cup {0}
       /\ \A p \in winPnls : p <= stats.maxWin
       /\ winPnls # {} /\ (\A p \in winPnls : p > 0) => stats.maxWin \in winPnls
       /\ stats.maxLoss \in lossPnls \cup {0}
       /\ \A p \in lossPnls : p >= stats.maxLoss
       /\ lossPnls # {} /\ (\A p \in lossPnls : p < 0) => stats.maxLoss \in lossPnls

\* a larger win was followed by a smaller one and a larger loss by a smaller
\* one, and a streak of two was broken
StatsOrderedWitness ==
    /\ Len(resolutions) = 4
    /\ resolutions[1].result = "win" /\ resolutions[2].result = "win"
    /\ resolutions[2].pnl < resolutions[1].pnl
    /\ resolutions[3].result = "loss" /\ resolutions[4].result = "loss"
    /\ resolutions[4].pnl > resolutions[3].pnl
    /\ stats.maxWin = resolutions[1].pnl
    /\ stats.maxLoss = resolutions[3].pnl
    /\ stats.currentStreak = 0
    /\ stats.bestStreak = 2

(***************************************************************************)
(* A price tick resolves the trade in the tick itself                      *)
(***************************************************************************)
\* The price p is at or beyond tp1, tp2 or sl in the direction of the trade t.
AtOrBeyond(t, p) ==
    IF t.action = "BUY" THEN p >= t.tp1 \/ p >= t.tp2 \/ p <= t.sl
    ELSE p <= t.tp1 \/ p <= t.tp2 \/ p >= t.sl

\* C37: when a price tick's fetch succeeds while a trade is active, the state
\* the handler leaves holds the fetched price, and with a price at or beyond
\* tp1, tp2 or sl the trade is resolved in it (slot empty, one more trade
\* counted, cooldown started), so that no other handler sees that price with
\* the trade active; with a price strictly between sl and tp1 the trade, the
\* statistics and the cooldown are as before.
TickResolvesAtOnce ==
    activeTrade # null =>
        \A p \in TickerPrices :
            LET t == Val(activeTrade)
                s2 == priceTickHandler(St, Some(p))
            IN /\ s2.currentPrice = p
               /\ IF AtOrBeyond(t, p)
                  THEN /\ s2.activeTrade = null
                       /\ s2.done # null
                       /\ Val(s2.done).id = t.id
                       /\ Val(s2.done).status \in Terminal
                       /\ s2.stats.totalTrades = stats.totalTrades + 1
                       /\ s2.cooldownEnd = Some(now + cooldownSeconds)
                  ELSE /\ s2.done = null
                       /\ s2.activeTrade = activeTrade
                       /\ s2.stats = stats
                       /\ s2.cooldownEnd = cooldownEnd

\* a price tick has delivered a price beyond the stop of a SELL trade: the
\* state holds that price, the trade resolved as a loss, and an empty slot
TickResolvesAtOnceWitness ==
    /\ activeTrade = null
    /\ signalHistory # <<>>
    /\ signalHistory[1].action = "SELL"
    /\ signalHistory[1].status = "hit_sl"
    /\ signalHistory[1].exitPrice = Some(currentPrice)
    /\ currentPrice > signalHistory[1].sl
    /\ stats.totalTrades = 1
    /\ resolvedAt = Some(now)

====
